---------------------------- MODULE Spec2Model ----------------------------
(***************************************************************************)
(* Whale position tracking: the scan of WhaleScoreTracker                  *)
(* (src/main/scripts/whale_score_tracker.py), its tracking loop with the   *)
(* history ledger, the fill de-duplication of WhalePositionTracker and     *)
(* RecentWhalePositionAnalyzer, and the request clients                    *)
(* (make_request_with_retry).                                              *)
(*                                                                         *)
(* The specifications share the variables below; each one leaves the       *)
(* variables of the others at their initial values.                        *)
(*   Spec         the scan: analyze_positions with its pool of workers;    *)
(*                wallet addresses are pairwise distinct                   *)
(*   SpecLoop     run_tracking_loop, save_history, cleanup and the lock;   *)
(*                the scan enters it by its outcome (it raises, or it      *)
(*                returns a snapshot); the process may be killed inside    *)
(*                save_history and started again                           *)
(*   FairSpecLoop SpecLoop with both threads scheduled fairly              *)
(*   SpecDedupe   get_whale_positions / get_recent_positions on fill lists *)
(*                in a local time zone with or without a clock change     *)
(*   SpecRequest  one call of make_request_with_retry, for each of the     *)
(*                three classes and each max_retries                       *)
(*   FairSpecRequest  SpecRequest with the calling thread kept running     *)
(*   SpecDuplicates   the scan over a wallet list that names an address    *)
(*                twice                                                    *)
(*   SpecRoundTrip    save_history, then load_history, on histories of     *)
(*                the 72-hour window                                       *)
(*   SpecTrack    WhalePositionTracker.track_positions: the process_whale  *)
(*                tasks of its pool, step by step                          *)
(*   SpecSentiment    WhaleSentimentTracker, run after run, with trades    *)
(*                between the runs                                         *)
(***************************************************************************)
EXTENDS Integers, Sequences, FiniteSets, TLC

VARIABLES
    \* ---- the scan (analyze_positions) ----
    scan_pc,             \* "idle" | "scanning" | "returned" | "raised"
    cycle,               \* number of scans started
    whale_addresses,     \* list read from activeWhales.json
    future,              \* future[i]: the pool's task for whale_addresses[i]
    previous_positions,  \* dict wallet -> set of assets
    cycle_prev,          \* previous_positions when the running scan started
    new_longs,
    new_shorts,
    longing_wallets,
    shorting_wallets,
    whale_positions,     \* dict wallet -> (dict coin -> position type)
    scan_snapshot,       \* what analyze_positions returned
    wallet_files,        \* what resources/activeWhales.json may hold in this run
    \* ---- fill de-duplication ----
    fills,               \* the list the userFillsByTime request returned
    tracker_positions,   \* what get_whale_positions returned
    recent_positions,    \* what get_recent_positions returned
    dedupe_done,         \* which of the two functions have returned
    tz,                  \* the local time zone of the process
    \* ---- track_positions of WhalePositionTracker ----
    wallet_fills,        \* wallet -> the fills the exchange returns for it
    track_pc,            \* wallet -> where its process_whale task is
    track_read,          \* wallet -> processed_wallets as its task read it
    self_positions,      \* self.positions
    active_wallets,      \* self.active_wallets
    processed_wallets,   \* self.processed_wallets
    track_main,          \* "pool" | "display": track_positions itself
    \* ---- WhaleSentimentTracker, run after run ----
    sentiment_pc,        \* "start" | "loaded": where main() of the run is
    sentiment_runs,      \* runs of the script started
    sentiment_trades,    \* changes of the wallets' positions so far
    exchange,            \* wallet -> asset -> the position user_state reports
    sentiment_file,      \* resources/sentiment_history.json
    previous_snapshot,   \* self.previous_snapshot
    sentiment_log,       \* per run the positions counted as new, and the trades
    \* ---- the tracking loop and the history ledger ----
    running,             \* self.running
    tracker_pc,          \* where the tracking thread is in run_tracking_loop
    main_pc,             \* where the main thread is
    cleanup_calls,       \* how many times cleanup() was entered
    score_history,       \* self.score_history
    history_file,        \* resources/score_history.json
    now,                 \* the wall clock, in clock units
    ticks,               \* how often the clock was advanced
    retry_count,
    snapshot,            \* the snapshot analyze_positions handed to the loop
    loops,               \* iterations of the loop started
    pre_prune,           \* score_history between line 336 and line 339
    prune_now,           \* the clock read at line 338
    last_cutoff,         \* the cutoff of the last prune (load or loop)
    file_written,        \* a save_history of this run wrote the file
    disk_failed,         \* a disk write of this run failed
    save_log,            \* the save_history calls of this run that returned
    delay,               \* seconds the tracking thread sleeps at line 377 / 388
    crashes,             \* how often the process was killed
    crash,               \* the file before, and the data of, the killed save
    loaded,              \* what the last load_history read and produced
    \* ---- make_request_with_retry ----
    client,              \* the class whose method runs
    max_retries,
    req_pc,              \* "request" | "sleep" | "returned"
    attempt,             \* the loop variable of range(max_retries)
    posts,               \* session.post calls made
    req_log,             \* the outcome of every session.post so far
    req_delay,           \* the last time.sleep of the call, in clock units
    req_result,          \* what the call returned
    \* ---- shared ----
    lock                 \* self.lock: "free" or the thread that holds it

scanVars == <<scan_pc, cycle, whale_addresses, future, previous_positions,
              cycle_prev, wallet_files,
              new_longs, new_shorts, longing_wallets, shorting_wallets,
              whale_positions, scan_snapshot>>

trackVars == <<wallet_fills, track_pc, track_read, self_positions, active_wallets,
               processed_wallets, track_main>>

sentimentVars == <<sentiment_pc, sentiment_runs, sentiment_trades, exchange,
                   sentiment_file, previous_snapshot, sentiment_log>>

dedupeVars == <<fills, tracker_positions, recent_positions, dedupe_done, tz,
                trackVars, sentimentVars>>

loopVars == <<running, tracker_pc, main_pc, cleanup_calls, score_history,
              history_file, now, ticks, retry_count, snapshot, loops,
              pre_prune, prune_now, last_cutoff, file_written, disk_failed,
              save_log, delay, crashes, crash, loaded>>

requestVars == <<client, max_retries, req_pc, attempt, posts, req_log,
                 req_delay, req_result>>

vars == <<scanVars, dedupeVars, loopVars, requestVars, lock>>

----------------------------------------------------------------------------
(* Bounds and program constants *)

MaxCycles == 2

MIN_POSITION_TRACKER_VALUE == 50000

Wallets == {"w1", "w2", "w3"}
Assets == {"BTC", "ETH"}

\* One entry of user_state['assetPositions'].
Pos(coin, szi, positionValue) ==
    [coin |-> coin, szi |-> szi, positionValue |-> positionValue]

\* Outcomes of info_client.user_state(address): the call raises, the answer
\* is no dict with 'assetPositions', or it lists positions.
OkState(positions) == [kind |-> "ok", assetPositions |-> positions]

UserStates ==
    { [kind |-> "raise", assetPositions |-> <<>>],
      [kind |-> "malformed", assetPositions |-> <<>>],
      OkState(<<>>),
      OkState(<<Pos("BTC", 1, 150000)>>),
      OkState(<<Pos("BTC", 1, 150000), Pos("ETH", 1, 120000)>>),
      OkState(<<Pos("BTC", 1, 120000), Pos("ETH", -1, 50000)>>),
      OkState(<<Pos("BTC", 1, 49999), Pos("ETH", -1, 150000)>>),
      OkState(<<Pos("BTC", 0, 60000)>>) }

\* Contents of activeWhales.json that name a wallet twice: the same string
\* again, or the same address in another letter case.
DuplicateWalletFiles ==
    { [readable |-> TRUE, wallets |-> <<"w1", "w1">>],
      [readable |-> TRUE, wallets |-> <<"w1", "W1">>],
      [readable |-> TRUE, wallets |-> <<"w1", "w2", "w1">>] }

\* Contents of activeWhales.json; "missing" makes open() raise.
WalletFiles ==
    { [readable |-> FALSE, wallets |-> <<>>],
      [readable |-> TRUE, wallets |-> <<"w1", "w2", "w3">>] }

EmptyMap == [c \in {} |-> "long"]

MapPut(m, k, v) == [x \in DOMAIN m \cup {k} |-> IF x = k THEN v ELSE m[x]]

Abs(x) == IF x < 0 THEN -x ELSE x

----------------------------------------------------------------------------
(* process_whale *)

\* line 204 without the test of the size.
IsTrackedAnySize(pos) == pos.positionValue >= MIN_POSITION_TRACKER_VALUE

\* line 204: the position counts when it has a size and reaches the minimum.
IsTracked(pos) ==
    pos.szi # 0 /\ pos.positionValue >= MIN_POSITION_TRACKER_VALUE

\* lines 207-208 with every tracked position taken for new.
is_new_position_always(prev, whale_address, coin) == TRUE

\* lines 207-208 with the map looked up by asset across all wallets.
is_new_position_any_wallet(prev, whale_address, coin) ==
    \A w \in DOMAIN prev : coin \notin prev[w]

\* lines 207-208

is_new_position(prev, whale_address, coin) ==
    \/ whale_address \notin DOMAIN prev
    \/ coin \notin prev[whale_address]

\* line 214 with the two sides exchanged.
position_type_flipped(size) == IF size > 0 THEN "short" ELSE "long"

\* line 214

position_type(size) == IF size > 0 THEN "long" ELSE "short"

EmptyResult == [raised |-> FALSE, current_assets |-> {}, new_positions |-> EmptyMap]

\* lines 189-218: the loop over user_state['assetPositions'] from index k on.
RECURSIVE ProcessPositions(_, _, _, _, _)
ProcessPositions(positions, k, whale_address, prev, acc) ==
    IF k > Len(positions) THEN acc
    ELSE LET pos == positions[k]
             coin == pos.coin
             next ==
                 IF IsTracked(pos)
                 THEN [acc EXCEPT
                         !.current_assets = @ \cup {coin},
                         !.new_positions =
                             IF is_new_position(prev, whale_address, coin)
                             THEN MapPut(@, coin, position_type(pos.szi))
                             ELSE @]
                 ELSE acc
         IN ProcessPositions(positions, k + 1, whale_address, prev, next)

\* The same function without its try/except: the exception reaches the caller.
process_whale_reraise(whale_address, user_state, prev) ==
    IF user_state.kind = "raise"
    THEN [raised |-> TRUE, current_assets |-> {}, new_positions |-> EmptyMap]
    ELSE IF user_state.kind = "malformed" THEN EmptyResult
    ELSE ProcessPositions(user_state.assetPositions, 1, whale_address, prev,
                          EmptyResult)

\* lines 168-233
process_whale(whale_address, user_state, prev) ==
    IF user_state.kind = "raise" THEN EmptyResult
    ELSE IF user_state.kind = "malformed" THEN EmptyResult
    ELSE ProcessPositions(user_state.assetPositions, 1, whale_address, prev,
                          EmptyResult)

----------------------------------------------------------------------------
(* analyze_positions *)

\* threading.Lock is not reentrant: acquire succeeds only on a free lock.
CanAcquire(l, thread) == l = "free"

CountType(new_positions, t) ==
    Cardinality({c \in DOMAIN new_positions : new_positions[c] = t})

\* lines 274-288 with a wallet counted on one side only.
TallyOneSide(agg, whale_address, new_positions) ==
    LET nl == CountType(new_positions, "long")
        ns == Cardinality(DOMAIN new_positions) - nl
    IN [new_longs |-> agg.new_longs + nl,
        new_shorts |-> agg.new_shorts + ns,
        longing_wallets |->
            IF nl > 0 THEN agg.longing_wallets \cup {whale_address}
            ELSE agg.longing_wallets,
        shorting_wallets |->
            IF nl = 0 /\ ns > 0 THEN agg.shorting_wallets \cup {whale_address}
            ELSE agg.shorting_wallets]

\* lines 274-288: count the new positions of one wallet.
Tally(agg, whale_address, new_positions) ==
    LET nl == CountType(new_positions, "long")
        ns == Cardinality(DOMAIN new_positions) - nl
    IN [new_longs |-> agg.new_longs + nl,
        new_shorts |-> agg.new_shorts + ns,
        longing_wallets |->
            IF nl > 0 THEN agg.longing_wallets \cup {whale_address}
            ELSE agg.longing_wallets,
        shorting_wallets |->
            IF ns > 0 THEN agg.shorting_wallets \cup {whale_address}
            ELSE agg.shorting_wallets]

\* line 296 with the shorts added.
ScoreSum(nl, ns) == nl + ns

\* line 296

Score(nl, ns) == nl - ns

NoSnapshot == [valid |-> FALSE, score |-> 0, longing_wallets |-> 0,
               shorting_wallets |-> 0]

PendingFuture == [st |-> "pending", user_state |-> OkState(<<>>),
                  result |-> EmptyResult]

\* lines 238-259: read the wallet list, reset the counters, submit one task
\* per address. A list that cannot be read raises out of analyze_positions.
StartScan ==
    /\ scan_pc \in {"idle", "returned", "raised"}
    /\ cycle < MaxCycles
    /\ cycle' = cycle + 1
    /\ \E f \in wallet_files :
        IF f.readable
        THEN /\ whale_addresses' = f.wallets
             /\ future' = [i \in 1..Len(f.wallets) |-> PendingFuture]
             /\ scan_pc' = "scanning"
        ELSE /\ whale_addresses' = <<>>
             /\ future' = <<>>
             /\ scan_pc' = "raised"
    /\ new_longs' = 0
    /\ new_shorts' = 0
    /\ longing_wallets' = {}
    /\ shorting_wallets' = {}
    /\ whale_positions' = <<>>
    /\ scan_snapshot' = NoSnapshot
    /\ cycle_prev' = previous_positions
    /\ UNCHANGED <<previous_positions, wallet_files, lock, dedupeVars, loopVars,
                   requestVars>>

\* lines 267-268 with the new assets added to the ones held before.
record_current_merge(prev, whale_address, current_assets) ==
    MapPut(prev, whale_address,
           current_assets \cup (IF whale_address \in DOMAIN prev
                                THEN prev[whale_address] ELSE {}))

\* lines 267-268: self.previous_positions[whale_address] = current_assets
record_current(prev, whale_address, current_assets) ==
    MapPut(prev, whale_address, current_assets)

\* A pool worker runs process_whale for task i (lines 168-233).
Worker(i) ==
    /\ scan_pc = "scanning"
    /\ future[i].st = "pending"
    /\ \E us \in UserStates :
        future' = [future EXCEPT ![i] =
            [st |-> "done", user_state |-> us,
             result |-> process_whale(whale_addresses[i], us, previous_positions)]]
    /\ UNCHANGED <<scan_pc, cycle, whale_addresses, wallet_files, previous_positions,
                   cycle_prev, new_longs, new_shorts, longing_wallets, shorting_wallets,
                   whale_positions, scan_snapshot, lock, dedupeVars, loopVars, requestVars>>

\* lines 261-293: the body of the as_completed loop for one finished task.
Collect(i) ==
    /\ scan_pc = "scanning"
    /\ future[i].st = "done"
    /\ LET whale_address == whale_addresses[i]
           res == future[i].result
           agg == Tally([new_longs |-> new_longs, new_shorts |-> new_shorts,
                         longing_wallets |-> longing_wallets,
                         shorting_wallets |-> shorting_wallets],
                        whale_address, res.new_positions)
       IN IF res.raised
          THEN \* lines 290-293: future.result() raised
               UNCHANGED <<previous_positions, whale_positions, new_longs,
                           new_shorts, longing_wallets, shorting_wallets>>
          ELSE /\ CanAcquire(lock, "tracker")
               /\ previous_positions' =
                      record_current(previous_positions, whale_address,
                                     res.current_assets)
               /\ whale_positions' =
                      IF res.new_positions # EmptyMap
                      THEN MapPut(whale_positions, whale_address, res.new_positions)
                      ELSE whale_positions
               /\ new_longs' = agg.new_longs
               /\ new_shorts' = agg.new_shorts
               /\ longing_wallets' = agg.longing_wallets
               /\ shorting_wallets' = agg.shorting_wallets
    /\ future' = [future EXCEPT ![i] =
                     [st |-> "collected", user_state |-> @.user_state,
                      result |-> EmptyResult]]
    /\ UNCHANGED <<scan_pc, cycle, whale_addresses, wallet_files, scan_snapshot, cycle_prev,
                   lock, dedupeVars, loopVars, requestVars>>

\* lines 295-310
FinishScan ==
    /\ scan_pc = "scanning"
    /\ \A i \in DOMAIN future : future[i].st = "collected"
    /\ scan_snapshot' = [valid |-> TRUE,
                         score |-> Score(new_longs, new_shorts),
                         longing_wallets |-> Cardinality(longing_wallets),
                         shorting_wallets |-> Cardinality(shorting_wallets)]
    /\ scan_pc' = "returned"
    /\ UNCHANGED <<cycle, whale_addresses, wallet_files, future, previous_positions,
                   cycle_prev, new_longs, new_shorts, longing_wallets, shorting_wallets,
                   whale_positions, lock, dedupeVars, loopVars, requestVars>>

\* lines 69-88: the scan's state after WhaleScoreTracker() has returned.
ScanIdle ==
    /\ scan_pc = "idle"
    /\ cycle = 0
    /\ whale_addresses = <<>>
    /\ future = <<>>
    /\ previous_positions = <<>>
    /\ cycle_prev = <<>>
    /\ new_longs = 0
    /\ new_shorts = 0
    /\ longing_wallets = {}
    /\ shorting_wallets = {}
    /\ whale_positions = <<>>
    /\ scan_snapshot = NoSnapshot

InitScan == ScanIdle /\ wallet_files = WalletFiles

TrackWallets == {"w1", "w2", "w3"}

\* whale_position_tracker.py lines 60-62: the tracker as constructed, no
\* task started.
TrackIdle ==
    /\ wallet_fills = [w \in TrackWallets |-> <<>>]
    /\ track_pc = [w \in TrackWallets |-> "queued"]
    /\ track_read = [w \in TrackWallets |-> 0]
    /\ self_positions = <<>>
    /\ active_wallets = 0
    /\ processed_wallets = 0
    /\ track_main = "pool"

SentimentWallets == {"w1", "w2"}

NoPosition == [szi |-> 0, positionValue |-> 0]

\* No sentiment_history.json, or a snapshot: the positions saved in it, as
\* wallet -> asset -> size.
NoSentimentFile == [exists |-> FALSE, new_longs |-> 0, new_shorts |-> 0,
                    positions |-> EmptyMap]

\* whale_sentiment_tracker.py lines 55-63 not yet run, no script started.
SentimentIdle ==
    /\ sentiment_pc = "start"
    /\ sentiment_runs = 0
    /\ sentiment_trades = 0
    /\ exchange = [w \in SentimentWallets |-> [a \in Assets |-> NoPosition]]
    /\ sentiment_file = NoSentimentFile
    /\ previous_snapshot = NoSentimentFile
    /\ sentiment_log = <<>>

\* The variables of the de-duplication while another specification runs.
DedupeIdle ==
    /\ fills = <<>>
    /\ tracker_positions = <<>>
    /\ recent_positions = <<>>
    /\ dedupe_done = {}
    /\ tz = "UTC"
    /\ TrackIdle
    /\ SentimentIdle

\* resources/score_history.json is not there.
NoFile == [exists |-> FALSE, valid |-> FALSE, last_updated |-> 0,
           history |-> <<>>]

\* No save_history of this process was cut short.
NoCrash == [happened |-> FALSE, old_file |-> NoFile, new_history |-> <<>>]

\* load_history has not run.
NothingLoaded == [file |-> NoFile, at |-> 0, result |-> <<>>,
                  after_crash |-> FALSE]

\* The variables of the tracking loop while another specification runs.
LoopIdle ==
    /\ running = TRUE
    /\ tracker_pc = "loop"
    /\ main_pc = "waiting"
    /\ cleanup_calls = 0
    /\ score_history = <<>>
    /\ history_file = [exists |-> FALSE, valid |-> FALSE, last_updated |-> 0,
                       history |-> <<>>]
    /\ now = 0
    /\ ticks = 0
    /\ retry_count = 0
    /\ snapshot = [timestamp |-> 0, score |-> 0, longing_wallets |-> 0,
                   shorting_wallets |-> 0]
    /\ loops = 0
    /\ pre_prune = <<>>
    /\ prune_now = 0
    /\ last_cutoff = [set |-> FALSE, at |-> 0]
    /\ file_written = FALSE
    /\ disk_failed = FALSE
    /\ save_log = <<>>
    /\ delay = 0
    /\ crashes = 0
    /\ crash = NoCrash
    /\ loaded = NothingLoaded

\* The variables of the request client while another specification runs.
RequestIdle ==
    /\ client = "WhalePositionTracker"
    /\ max_retries = 0
    /\ req_pc = "returned"
    /\ attempt = 0
    /\ posts = 0
    /\ req_log = <<>>
    /\ req_delay = 0
    /\ req_result = "None"

Init == InitScan /\ DedupeIdle /\ LoopIdle /\ RequestIdle /\ lock = "free"

Next ==
    \/ StartScan
    \/ \E i \in DOMAIN future : Worker(i)
    \/ \E i \in DOMAIN future : Collect(i)
    \/ FinishScan

Spec == Init /\ [][Next]_vars

\* The scan on wallet lists that name a wallet more than once.
InitDuplicates ==
    /\ ScanIdle
    /\ wallet_files = DuplicateWalletFiles
    /\ DedupeIdle /\ LoopIdle /\ RequestIdle /\ lock = "free"

SpecDuplicates == InitDuplicates /\ [][Next]_vars

----------------------------------------------------------------------------
(* Claims about the scan (checked under Spec) *)

PrevOf(w) == IF w \in DOMAIN previous_positions THEN previous_positions[w] ELSE {}

\* The signed sizes user_state lists for a coin.
SizesOf(user_state, coin) ==
    {user_state.assetPositions[k].szi : k \in
        {n \in 1..Len(user_state.assetPositions) :
            user_state.assetPositions[n].coin = coin}}

DoneFutures == {i \in DOMAIN future : future[i].st = "done"}

\* C1: when process_whale has returned for a wallet whose previous asset set
\* is P (empty when the wallet was never seen), its new positions are exactly
\* the assets of its current asset set that are not in P, each marked long
\* iff the position's size is > 0 and short otherwise; no asset of P is marked.
C1_NewPositionsAreCurrentMinusPrevious ==
    \A i \in DoneFutures :
        LET P == PrevOf(whale_addresses[i])
            res == future[i].result
            us == future[i].user_state
        IN /\ DOMAIN res.new_positions = res.current_assets \ P
           /\ \A c \in DOMAIN res.new_positions :
                /\ res.new_positions[c] \in {"long", "short"}
                /\ \A sz \in SizesOf(us, c) :
                     (res.new_positions[c] = "long") <=> (sz > 0)
                /\ SizesOf(us, c) # {}
           /\ \A c \in P : c \notin DOMAIN res.new_positions

\* The spec's scenario: P = {BTC}, current {BTC, ETH}, the one event ETH/long.
C1_Witness ==
    \E i \in DoneFutures :
        /\ PrevOf(whale_addresses[i]) = {"BTC"}
        /\ future[i].result.current_assets = {"BTC", "ETH"}
        /\ future[i].result.new_positions = [c \in {"ETH"} |-> "long"]

\* C2: when the previous asset set of a wallet contains its newly computed
\* current asset set, process_whale returns no new position.
C2_NewPositionMonotonicity ==
    \A i \in DoneFutures :
        future[i].result.current_assets \subseteq PrevOf(whale_addresses[i])
            => future[i].result.new_positions = EmptyMap

C2_Witness ==
    \E i \in DoneFutures :
        /\ future[i].result.current_assets = {"BTC"}
        /\ PrevOf(whale_addresses[i]) = {"BTC", "ETH"}
        /\ future[i].result.new_positions = EmptyMap

\* C4: collecting the result of one task never aborts the scan and touches
\* no other wallet's entry or task; a wallet whose fetch raised or was
\* malformed is recorded with the empty asset set and adds no event.
C4_PartialFailureIsolation ==
    [][\A i \in DOMAIN future :
         (i \in DOMAIN future' /\ future[i].st = "done"
            /\ future'[i].st = "collected") =>
         LET w == whale_addresses[i]
         IN /\ scan_pc' = "scanning"
            /\ \A j \in DOMAIN future \ {i} : future'[j] = future[j]
            /\ \A v \in Wallets \ {w} :
                 /\ (v \in DOMAIN previous_positions') <=>
                      (v \in DOMAIN previous_positions)
                 /\ v \in DOMAIN previous_positions =>
                      previous_positions'[v] = previous_positions[v]
                 /\ (v \in DOMAIN whale_positions') <=>
                      (v \in DOMAIN whale_positions)
                 /\ v \in DOMAIN whale_positions =>
                      whale_positions'[v] = whale_positions[v]
            /\ future[i].user_state.kind # "ok" =>
                 /\ w \in DOMAIN previous_positions'
                 /\ previous_positions'[w] = {}
                 /\ w \notin DOMAIN whale_positions'
                 /\ new_longs' = new_longs /\ new_shorts' = new_shorts
                 /\ longing_wallets' = longing_wallets
                 /\ shorting_wallets' = shorting_wallets]_vars

\* A finished scan in which w1's fetch raised, w2's answer was malformed and
\* w3 opened a position.
C4_Witness ==
    /\ scan_pc = "returned"
    /\ Len(future) = 3
    /\ future[1].user_state.kind = "raise"
    /\ future[2].user_state.kind = "malformed"
    /\ previous_positions["w1"] = {} /\ previous_positions["w2"] = {}
    /\ "w3" \in DOMAIN whale_positions
    /\ scan_snapshot.valid

EventsOfType(t) ==
    {<<w, c>> \in Wallets \X Assets :
        /\ w \in DOMAIN whale_positions
        /\ c \in DOMAIN whale_positions[w]
        /\ whale_positions[w][c] = t}

\* C5: the snapshot a scan returns has score = (number of new long positions
\* over all wallets) - (number of new short positions); 0 when there is none.
C5_ScoreIdentity ==
    scan_snapshot.valid =>
        /\ scan_snapshot.score =
              Cardinality(EventsOfType("long")) - Cardinality(EventsOfType("short"))
        /\ (whale_positions = <<>>) => scan_snapshot.score = 0

C5_Witness ==
    /\ scan_snapshot.valid
    /\ Cardinality(EventsOfType("long")) = 1
    /\ Cardinality(EventsOfType("short")) = 2
    /\ scan_snapshot.score = -1

\* C6: longing_wallets is the number of distinct wallets with at least one
\* new long, shorting_wallets the number with at least one new short; a
\* wallet with both is counted in both.
C6_WalletCounts ==
    scan_snapshot.valid =>
        /\ scan_snapshot.longing_wallets =
              Cardinality({w \in Wallets : \E c \in Assets : <<w, c>> \in EventsOfType("long")})
        /\ scan_snapshot.shorting_wallets =
              Cardinality({w \in Wallets : \E c \in Assets : <<w, c>> \in EventsOfType("short")})

\* The spec's scenario: w1 opens one long, w2 one long and one short, w3 nothing.
C6_Witness ==
    /\ scan_snapshot.valid
    /\ Len(whale_addresses) = 3
    /\ DOMAIN whale_positions = {"w1", "w2"}
    /\ whale_positions["w1"] = [c \in {"BTC"} |-> "long"]
    /\ whale_positions["w2"] = [c \in {"BTC", "ETH"} |-> IF c = "BTC" THEN "long" ELSE "short"]
    /\ new_longs = 2 /\ new_shorts = 1
    /\ scan_snapshot.score = 1
    /\ scan_snapshot.longing_wallets = 2
    /\ scan_snapshot.shorting_wallets = 1

\* analyze_positions run with the tasks completing in the order of the
\* wallet list, every worker reading the map as it was when the scan began.
RECURSIVE InListOrder(_, _)
InListOrder(k, acc) ==
    IF k > Len(whale_addresses) THEN acc
    ELSE LET whale_address == whale_addresses[k]
             res == process_whale(whale_address, future[k].user_state, cycle_prev)
             agg == Tally(acc.agg, whale_address, res.new_positions)
         IN InListOrder(k + 1,
                IF res.raised THEN acc
                ELSE [agg |-> agg,
                      prev |-> MapPut(acc.prev, whale_address, res.current_assets)])

\* C12: with pairwise distinct addresses and fixed per-wallet fetch results,
\* the snapshot (score, longing_wallets, shorting_wallets) and the
\* previous_positions map a scan ends with are those of the scan in list
\* order, whatever the order in which the workers ran and completed.
C12_OrderIndependence ==
    scan_pc = "returned" =>
        LET ref == InListOrder(1, [agg |-> [new_longs |-> 0, new_shorts |-> 0,
                                           longing_wallets |-> {},
                                           shorting_wallets |-> {}],
                                  prev |-> cycle_prev])
        IN /\ scan_snapshot.score = Score(ref.agg.new_longs, ref.agg.new_shorts)
           /\ scan_snapshot.longing_wallets = Cardinality(ref.agg.longing_wallets)
           /\ scan_snapshot.shorting_wallets = Cardinality(ref.agg.shorting_wallets)
           /\ previous_positions = ref.prev

\* C13: previous_positions is written only by the completion loop of
\* analyze_positions, and the read of a wallet's previous asset set and the
\* write of its new asset set are one step under the lock: the step in which
\* a worker thread reads the map for a wallet is the step that writes the
\* wallet's entry.
C13_LockDiscipline ==
    [][ /\ previous_positions' # previous_positions =>
            \E i \in DOMAIN future \cap DOMAIN future' :
                future[i].st = "done" /\ future'[i].st = "collected"
        /\ \A i \in DOMAIN future \cap DOMAIN future' :
              ( /\ future[i].st = "pending"
                /\ future'[i].st = "done"
                /\ future'[i].result.current_assets # {} )
              => /\ whale_addresses[i] \in DOMAIN previous_positions'
                 /\ previous_positions'[whale_addresses[i]] =
                        future'[i].result.current_assets
      ]_vars

\* A second scan has returned: w1 held BTC before it and has now opened ETH
\* short, w3 opened a long, so the score is 0 with one wallet on each side.
C12_Witness ==
    /\ scan_pc = "returned"
    /\ cycle = 2
    /\ "w1" \in DOMAIN cycle_prev /\ cycle_prev["w1"] = {"BTC"}
    /\ previous_positions["w1"] = {"BTC", "ETH"}
    /\ scan_snapshot.score = 0
    /\ scan_snapshot.longing_wallets = 1
    /\ scan_snapshot.shorting_wallets = 1

\* The asset set a wallet had when the running scan started.
HeldBefore(whale_address) ==
    IF whale_address \in DOMAIN cycle_prev THEN cycle_prev[whale_address] ELSE {}

\* C26: once a wallet's result is collected, previous_positions[wallet] is
\* exactly the asset set of this scan, whatever the wallet held before; an
\* asset held before and not held now is therefore reported as new by the
\* next scan that finds it.
C26_RecordCurrentReplaces ==
    \A i \in DOMAIN future :
        future[i].st = "collected" =>
            LET w == whale_addresses[i]
                current == process_whale(w, future[i].user_state,
                                         cycle_prev).current_assets
            IN /\ w \in DOMAIN previous_positions
               /\ previous_positions[w] = current
               /\ \A coin \in HeldBefore(w) \ current : \A us \in UserStates :
                     coin \in process_whale(w, us, previous_positions).current_assets
                     => coin \in DOMAIN process_whale(w, us, previous_positions).new_positions

\* In the second scan w1, which held BTC, is found with BTC below the
\* minimum and a short ETH position: its entry is now {ETH}.
C26_Witness ==
    /\ cycle = 2
    /\ scan_pc = "scanning"
    /\ HeldBefore("w1") = {"BTC"}
    /\ future[1].st = "collected"
    /\ future[1].user_state = OkState(<<Pos("BTC", 1, 49999), Pos("ETH", -1, 150000)>>)
    /\ previous_positions["w1"] = {"ETH"}

C30_NoFalseNewAfterFailure ==
    \A i \in DOMAIN future :
        (future[i].st = "collected" /\ future[i].user_state.kind = "raise") =>
            LET w == whale_addresses[i]
            IN \A coin \in HeldBefore(w) : \A us \in UserStates :
                   coin \notin DOMAIN process_whale(w, us, previous_positions).new_positions

\* The wallet an address string names: addresses are hexadecimal, their
\* letter case does not matter to the exchange.
WalletOf(address) == IF address = "W1" THEN "w1" ELSE address

\* The (wallet, asset) pairs the scan found a tracked position for that the
\* wallet did not hold when the scan started.
OpenedPairs ==
    {pair \in {WalletOf(whale_addresses[i]) : i \in DOMAIN future} \X Assets :
        \E i \in DOMAIN future :
            /\ WalletOf(whale_addresses[i]) = pair[1]
            /\ pair[2] \in process_whale(whale_addresses[i], future[i].user_state,
                                         cycle_prev).current_assets
            /\ pair[2] \notin HeldBefore(whale_addresses[i])}

\* C32: a wallet counts once per scan also when the list names it more than
\* once: the new longs and new shorts of a finished scan are together not
\* more than the (wallet, asset) pairs newly opened.
C32_WalletCountsOnce ==
    scan_pc = "returned" => new_longs + new_shorts <= Cardinality(OpenedPairs)

----------------------------------------------------------------------------
(* Fill de-duplication: WhalePositionTracker.get_whale_positions and       *)
(* RecentWhalePositionAnalyzer.get_recent_positions                        *)

MaxFills == 3

MIN_POSITION_VALUE == 100000

\* The request's time window in ms: cutoff_time and current_time.
cutoff_time == 1000
current_time == 2000

Fill(tid, coin, dir, sz, px, time, orderType) ==
    [tid |-> tid, coin |-> coin, dir |-> dir, sz |-> sz, px |-> px,
     time |-> time, orderType |-> orderType]

\* Fills the exchange may send. tid stands for the fields of a fill that no
\* key reads (hash, oid, fee, ...).
FillUniverse ==
    { Fill(1, "BTC", "Open Long", 2, 50000, 1500, "limit"),
      Fill(2, "BTC", "Open Long", 2, 50000, 1500, "limit"),
      Fill(3, "BTC", "Open Long", 2, 50000, 1500, "twap"),
      Fill(4, "BTC", "Open Long", 2, 50000, 1501, "limit"),
      Fill(5, "BTC", "Close Short", 2, 50000, 1500, "limit"),
      Fill(6, "BTC", "Open Short", 2, 50000, 1500, "limit"),
      Fill(7, "BTC", "Close Long", 2, 50000, 1500, "limit"),
      Fill(8, "BTC", "Buy", 2, 50000, 1500, "limit"),
      Fill(9, "ETH", "Open Long", 1, 99999, 1500, "limit"),
      Fill(10, "BTC", "Open Long", 2, 50000, 999, "limit"),
      Fill(11, "BTC", "Open Long", 3, 50000, 2000, "limit"),
      Fill(12, "ETH", "Open Short", 2, 60000, 1000, "limit"),
      Fill(13, "ETH", "Open Short", 2, 60000, 1500, "TWAP") }

RECURSIVE SeqsUpTo(_, _)
SeqsUpTo(S, n) ==
    IF n = 0 THEN {<<>>}
    ELSE LET shorter == SeqsUpTo(S, n - 1)
         IN shorter \cup {Append(q, x) : q \in shorter, x \in S}

\* str.lower() without the conversion.
lower_unchanged(s) == s

\* str.lower(), over the order types of FillUniverse
lower(s) == IF s = "TWAP" THEN "twap" ELSE s

\* lines 147-152 (168-175) alone: the test of the value left out.
SurvivesAnyValue(fill) ==
    /\ lower(fill.orderType) # "twap"
    /\ cutoff_time <= fill.time /\ fill.time <= current_time

\* lines 147-161 (168-186): a fill is skipped when it is a TWAP fill, lies
\* outside the window, or is worth less than the minimum.
Survives(fill) ==
    /\ lower(fill.orderType) # "twap"
    /\ cutoff_time <= fill.time /\ fill.time <= current_time
    /\ ~(Abs(fill.sz * fill.px) < MIN_POSITION_VALUE)

\* whale_position_tracker.py lines 164-166
is_long(dir_str) == dir_str = "Open Long" \/ dir_str = "Close Short"
\* dir_str.startswith('Open'), over the labels of FillUniverse
startswith_Open(dir_str) == dir_str \in {"Open Long", "Open Short"}
action_of(dir_str) == IF startswith_Open(dir_str) THEN "Open" ELSE "Close"
position_type_of(dir_str) == IF is_long(dir_str) THEN "Long" ELSE "Short"

\* line 169 without the fill time in the key.
trade_key_no_time(whale_address, fill) ==
    <<whale_address, fill.coin, position_type_of(fill.dir), action_of(fill.dir),
      fill.sz, fill.px>>

\* whale_position_tracker.py line 169
trade_key(whale_address, fill) ==
    <<whale_address, fill.coin, position_type_of(fill.dir), action_of(fill.dir),
      fill.sz, fill.px, fill.time>>

\* recent_24h_positions.py lines 188-193
recent_trade_key(whale_address, fill) ==
    <<whale_address, fill.coin, is_long(fill.dir), startswith_Open(fill.dir),
      fill.sz, fill.px, fill.time>>

\* Time zones the process may run in: one without daylight saving time and
\* one whose daylight saving time ends inside the window, at DstEnd; until
\* then its local clock is DstShift ahead of its standard time.
Zones == {"UTC", "Europe/Prague"}
DstEnd == 1501
DstShift == 2

utcoffset(zone, ms) ==
    IF zone = "Europe/Prague" /\ ms < DstEnd THEN DstShift ELSE 0

\* datetime.fromtimestamp(fill_time/1000): the naive local time of the
\* process's zone, microsecond resolution. Naive datetimes compare by their
\* fields alone.
datetime_fromtimestamp(ms) == (ms + utcoffset(tz, ms)) * 1000

\* whale_position_tracker.py lines 172-181
WhalePosition(whale_address, fill) ==
    [whale_address |-> whale_address,
     asset |-> fill.coin,
     position_type |-> position_type_of(fill.dir),
     action |-> action_of(fill.dir),
     size |-> fill.sz,
     mark_price |-> fill.px,
     position_value |-> fill.sz * fill.px,
     timestamp |-> datetime_fromtimestamp(fill.time)]

\* recent_24h_positions.py lines 195-203
RecentPosition(fill) ==
    [coin |-> fill.coin,
     size |-> IF is_long(fill.dir) THEN fill.sz ELSE -fill.sz,
     entry_price |-> fill.px,
     position_value |-> fill.sz * fill.px,
     timestamp |-> fill.time,
     is_open |-> startswith_Open(fill.dir),
     is_long |-> is_long(fill.dir)]

KeyIndex(trades, key) ==
    {n \in 1..Len(trades) : trades[n].key = key}

\* whale_position_tracker.py lines 144-182: unique_trades in insertion order;
\* a key already present is left alone.
RECURSIVE UniqueTrades(_, _, _, _)
UniqueTrades(whale_address, fs, k, trades) ==
    IF k > Len(fs) THEN trades
    ELSE LET fill == fs[k]
             key == trade_key(whale_address, fill)
             next ==
                 IF ~Survives(fill) THEN trades
                 ELSE IF KeyIndex(trades, key) # {} THEN trades
                 ELSE Append(trades, [key |-> key,
                                      value |-> WhalePosition(whale_address, fill)])
         IN UniqueTrades(whale_address, fs, k + 1, next)

\* recent_24h_positions.py lines 166-203: the dict entry is assigned for
\* every surviving fill; a key already present keeps its place.
RECURSIVE RecentUniqueTrades(_, _, _, _)
RecentUniqueTrades(whale_address, fs, k, trades) ==
    IF k > Len(fs) THEN trades
    ELSE LET fill == fs[k]
             key == recent_trade_key(whale_address, fill)
             entry == [key |-> key, value |-> RecentPosition(fill)]
             at == KeyIndex(trades, key)
             next ==
                 IF ~Survives(fill) THEN trades
                 ELSE IF at # {}
                      THEN [n \in 1..Len(trades) |->
                               IF n \in at THEN entry ELSE trades[n]]
                      ELSE Append(trades, entry)
         IN RecentUniqueTrades(whale_address, fs, k + 1, next)

\* A sort that is ascending and puts an element before the ones of the same
\* timestamp already placed.
RECURSIVE InsertBeforeTies(_, _)
InsertBeforeTies(sorted, x) ==
    IF sorted = <<>> THEN <<x>>
    ELSE IF sorted[Len(sorted)].timestamp < x.timestamp THEN Append(sorted, x)
    ELSE Append(InsertBeforeTies(SubSeq(sorted, 1, Len(sorted) - 1), x),
                sorted[Len(sorted)])

\* list.sort(key=timestamp): stable, ascending.
RECURSIVE InsertByTimestamp(_, _)
InsertByTimestamp(sorted, x) ==
    IF sorted = <<>> THEN <<x>>
    ELSE IF sorted[Len(sorted)].timestamp <= x.timestamp THEN Append(sorted, x)
    ELSE Append(InsertByTimestamp(SubSeq(sorted, 1, Len(sorted) - 1), x),
                sorted[Len(sorted)])

RECURSIVE SortByTimestamp(_)
SortByTimestamp(s) ==
    IF s = <<>> THEN <<>>
    ELSE InsertByTimestamp(SortByTimestamp(SubSeq(s, 1, Len(s) - 1)), s[Len(s)])

Values(trades) == [n \in 1..Len(trades) |-> trades[n].value]

\* whale_position_tracker.py lines 118-196
get_whale_positions(whale_address, fs) ==
    IF fs = <<>> THEN <<>>
    ELSE SortByTimestamp(Values(UniqueTrades(whale_address, fs, 1, <<>>)))

\* recent_24h_positions.py lines 134-222
get_recent_positions(whale_address, fs) ==
    IF fs = <<>> THEN <<>>
    ELSE SortByTimestamp(Values(RecentUniqueTrades(whale_address, fs, 1, <<>>)))

\* whale_position_tracker.py lines 238-245 (display_positions): the entries
\* each of the four statistics is computed from, as places in self.positions.
open_longs(positions) ==
    {n \in 1..Len(positions) :
        positions[n].action = "Open" /\ positions[n].position_type = "Long"}
open_shorts(positions) ==
    {n \in 1..Len(positions) :
        positions[n].action = "Open" /\ positions[n].position_type = "Short"}
closed_longs(positions) ==
    {n \in 1..Len(positions) :
        positions[n].action = "Close" /\ positions[n].position_type = "Long"}
closed_shorts(positions) ==
    {n \in 1..Len(positions) :
        positions[n].action = "Close" /\ positions[n].position_type = "Short"}

\* recent_24h_positions.py lines 249-281 (process_whale): the entries counted
\* under 'long', 'short', 'closed_long' and 'closed_short'.
CountedRecent(positions, long, open) ==
    {n \in 1..Len(positions) :
        /\ ~(Abs(positions[n].position_value) < MIN_POSITION_VALUE)
        /\ positions[n].is_long = long
        /\ positions[n].is_open = open}
recent_long(positions) == CountedRecent(positions, TRUE, TRUE)
recent_short(positions) == CountedRecent(positions, FALSE, TRUE)
recent_closed_long(positions) == CountedRecent(positions, TRUE, FALSE)
recent_closed_short(positions) == CountedRecent(positions, FALSE, FALSE)

TrackedWallet == "w1"

GetWhalePositions ==
    /\ "get_whale_positions" \notin dedupe_done
    /\ tracker_positions' = get_whale_positions(TrackedWallet, fills)
    /\ dedupe_done' = dedupe_done \cup {"get_whale_positions"}
    /\ UNCHANGED <<fills, recent_positions, tz, trackVars, sentimentVars, scanVars,
                   loopVars, requestVars, lock>>

GetRecentPositions ==
    /\ "get_recent_positions" \notin dedupe_done
    /\ recent_positions' = get_recent_positions(TrackedWallet, fills)
    /\ dedupe_done' = dedupe_done \cup {"get_recent_positions"}
    /\ UNCHANGED <<fills, tracker_positions, tz, trackVars, sentimentVars, scanVars,
                   loopVars, requestVars, lock>>

InitDedupe ==
    /\ InitScan
    /\ LoopIdle
    /\ RequestIdle
    /\ lock = "free"
    /\ fills \in SeqsUpTo(FillUniverse, MaxFills)
    /\ tz \in Zones
    /\ tracker_positions = <<>>
    /\ recent_positions = <<>>
    /\ dedupe_done = {}
    /\ TrackIdle
    /\ SentimentIdle

NextDedupe == GetWhalePositions \/ GetRecentPositions

SpecDedupe == InitDedupe /\ [][NextDedupe]_vars

\* The composite key (wallet, asset, side, isOpen, size, price, timestamp)
\* of a fill, of an entry of tracker_positions and of an entry of recent_positions.
FillKey(f) ==
    <<f.coin, f.dir \in {"Open Long", "Close Short"},
      f.dir \in {"Open Long", "Open Short"}, f.sz, f.px, f.time>>

Occurrences(seq, e) == Cardinality({n \in 1..Len(seq) : seq[n] = e})

RecentKey(r) ==
    <<r.coin, r.is_long, r.is_open, Abs(r.size), r.entry_price, r.timestamp>>

SurvivingFills == {n \in 1..Len(fills) : Survives(fills[n])}

FirstOccurrences ==
    {n \in SurvivingFills :
        \A m \in SurvivingFills : FillKey(fills[m]) = FillKey(fills[n]) => n <= m}

\* C3: both functions return exactly one entry per distinct composite key
\* among the fills that survive the filters, built from the first fill with
\* that key; the notional of fills with the same key is never added up.
C3_DedupeOnePerKey ==
    /\ "get_whale_positions" \in dedupe_done =>
         /\ Len(tracker_positions) = Cardinality(FirstOccurrences)
         /\ \A n \in FirstOccurrences :
               Occurrences(tracker_positions, WhalePosition(TrackedWallet, fills[n])) =
                   Cardinality({m \in FirstOccurrences :
                                  WhalePosition(TrackedWallet, fills[m]) =
                                  WhalePosition(TrackedWallet, fills[n])})
         /\ \A n \in FirstOccurrences : \E a \in 1..Len(tracker_positions) :
               /\ tracker_positions[a] = WhalePosition(TrackedWallet, fills[n])
               /\ tracker_positions[a].position_value = fills[n].sz * fills[n].px
    /\ "get_recent_positions" \in dedupe_done =>
         /\ Len(recent_positions) = Cardinality(FirstOccurrences)
         /\ \A a, b \in 1..Len(recent_positions) :
               RecentKey(recent_positions[a]) = RecentKey(recent_positions[b]) => a = b
         /\ \A n \in FirstOccurrences : \E a \in 1..Len(recent_positions) :
               /\ recent_positions[a] = RecentPosition(fills[n])
               /\ RecentKey(recent_positions[a]) = FillKey(fills[n])
               /\ recent_positions[a].position_value = fills[n].sz * fills[n].px

\* Two fills alike in asset, side, size, price and timestamp (they differ in
\* a field no key reads) and a third with another timestamp: two entries.
C3_Witness ==
    /\ dedupe_done = {"get_whale_positions", "get_recent_positions"}
    /\ Len(fills) = 3
    /\ fills[1].tid = 1 /\ fills[2].tid = 2 /\ fills[3].tid = 4
    /\ Len(tracker_positions) = 2 /\ Len(recent_positions) = 2
    /\ tracker_positions[1].position_value = 100000
    /\ recent_positions[1].position_value = 100000

\* Sequences of n pairwise different elements of S.
InjectiveSeqs(S, n) ==
    {q \in [1..n -> S] : \A a, b \in 1..n : q[a] = q[b] => a = b}

\* The ways to name, entry by entry, the fill of the input an entry of the
\* output was built from (each fill named once).
TrackerSources ==
    {q \in InjectiveSeqs(FirstOccurrences, Len(tracker_positions)) :
        \A a \in 1..Len(tracker_positions) :
            tracker_positions[a] = WhalePosition(TrackedWallet, fills[q[a]])}

RecentSources ==
    {q \in InjectiveSeqs(FirstOccurrences, Len(recent_positions)) :
        \A a \in 1..Len(recent_positions) :
            recent_positions[a] = RecentPosition(fills[q[a]])}

FillsAt(q) == [a \in DOMAIN q |-> fills[q[a]]]

\* C22: the fills behind the returned entries, given in the order of the
\* returned sequence to the same function again (same wallet, same window),
\* come back as the very same sequence: nothing more is dropped and the
\* order does not change.
C22_DedupIdempotent ==
    /\ "get_whale_positions" \in dedupe_done =>
         /\ TrackerSources # {}
         /\ \A q \in TrackerSources :
               get_whale_positions(TrackedWallet, FillsAt(q)) = tracker_positions
    /\ "get_recent_positions" \in dedupe_done =>
         /\ RecentSources # {}
         /\ \A q \in RecentSources :
               get_recent_positions(TrackedWallet, FillsAt(q)) = recent_positions

\* A fill of time 1501, then two fills of time 1500 of different sides: the
\* two of time 1500 are returned first, in the order they came in, and come
\* back in that order.
C22_Witness ==
    /\ dedupe_done = {"get_whale_positions", "get_recent_positions"}
    /\ tz = "UTC"
    /\ Len(fills) = 3
    /\ fills[1].tid = 4 /\ fills[2].tid = 1 /\ fills[3].tid = 5
    /\ Len(tracker_positions) = 3 /\ Len(recent_positions) = 3
    /\ tracker_positions[1].action = "Open" /\ tracker_positions[2].action = "Close"
    /\ tracker_positions[3].timestamp = 1501 * 1000
    /\ recent_positions[1].is_open /\ ~recent_positions[2].is_open
    /\ recent_positions[3].timestamp = 1501

\* A fill tagged as a TWAP fill, in either spelling the exchange may use.
IsTwap(f) == f.orderType \in {"twap", "TWAP"}

NotTwap(f) == ~IsTwap(f)

NonTwapKeys == {FillKey(fills[n]) : n \in {m \in 1..Len(fills) : NotTwap(fills[m])}}

\* C23: no TWAP fill is in the output: every returned entry is the record of
\* a fill of the input that is not a TWAP fill, there are no more entries
\* than keys among those fills, and the output is the one the function
\* returns for the input with its TWAP fills taken out.
C23_DedupExclusion ==
    /\ "get_whale_positions" \in dedupe_done =>
         /\ \A a \in 1..Len(tracker_positions) : \E n \in 1..Len(fills) :
               /\ NotTwap(fills[n])
               /\ tracker_positions[a] = WhalePosition(TrackedWallet, fills[n])
         /\ Len(tracker_positions) <= Cardinality(NonTwapKeys)
         /\ tracker_positions =
               get_whale_positions(TrackedWallet, SelectSeq(fills, NotTwap))
    /\ "get_recent_positions" \in dedupe_done =>
         /\ \A a \in 1..Len(recent_positions) : \E n \in 1..Len(fills) :
               /\ NotTwap(fills[n])
               /\ recent_positions[a] = RecentPosition(fills[n])
         /\ Len(recent_positions) <= Cardinality(NonTwapKeys)
         /\ recent_positions =
               get_recent_positions(TrackedWallet, SelectSeq(fills, NotTwap))

\* Two TWAP fills (one tagged 'TWAP', one 'twap') and a limit fill: only the
\* limit fill is returned.
C23_Witness ==
    /\ dedupe_done = {"get_whale_positions", "get_recent_positions"}
    /\ Len(fills) = 3
    /\ fills[1].orderType = "TWAP" /\ fills[2].orderType = "twap"
    /\ fills[3].tid = 12
    /\ Len(tracker_positions) = 1 /\ Len(recent_positions) = 1
    /\ tracker_positions[1].asset = "ETH"
    /\ recent_positions[1].timestamp = 1000

\* C24: every returned entry is worth at least MIN_POSITION_VALUE: the
\* absolute value of its size times its price, which is also what its
\* position_value holds, is not below the minimum.
C24_ThresholdExclusion ==
    /\ \A a \in 1..Len(tracker_positions) :
          /\ Abs(tracker_positions[a].size * tracker_positions[a].mark_price)
                >= MIN_POSITION_VALUE
          /\ Abs(tracker_positions[a].position_value) >= MIN_POSITION_VALUE
    /\ \A a \in 1..Len(recent_positions) :
          /\ Abs(recent_positions[a].size * recent_positions[a].entry_price)
                >= MIN_POSITION_VALUE
          /\ Abs(recent_positions[a].position_value) >= MIN_POSITION_VALUE

\* A fill worth 99999 and a fill worth exactly 100000: the second one alone
\* is returned.
C24_Witness ==
    /\ dedupe_done = {"get_whale_positions", "get_recent_positions"}
    /\ Len(fills) = 2
    /\ fills[1].tid = 9 /\ fills[2].tid = 6
    /\ Len(tracker_positions) = 1 /\ Len(recent_positions) = 1
    /\ tracker_positions[1].position_value = MIN_POSITION_VALUE
    /\ recent_positions[1].size = -2

\* C25: the returned sequence is in ascending order of the time of the
\* fills: of two entries, the one returned first was built from a fill that
\* is not later than the fill of the other.
C25_DedupOrdering ==
    /\ "get_whale_positions" \in dedupe_done =>
         \E q \in TrackerSources :
             \A a, b \in 1..Len(tracker_positions) :
                 a < b => fills[q[a]].time <= fills[q[b]].time
    /\ "get_recent_positions" \in dedupe_done =>
         \A a, b \in 1..Len(recent_positions) :
             a < b => recent_positions[a].timestamp <= recent_positions[b].timestamp

\* C34: an opening fill of the wallet worth the minimum or more, for an
\* asset the scan does not find among the wallet's positions (it was opened
\* and closed between two scans), gets a new-position event from
\* process_whale all the same; an asset never gets more than one event.
C34_SecondaryFillSignal ==
    \A i \in DOMAIN future :
        future[i].st = "done" =>
            LET w == whale_addresses[i]
                res == future[i].result
            IN /\ \A f \in FillUniverse :
                     LET deduped == get_whale_positions(w, <<f>>)
                     IN \A n \in 1..Len(deduped) :
                            ( /\ deduped[n].action = "Open"
                              /\ deduped[n].asset \notin res.current_assets )
                            => deduped[n].asset \in DOMAIN res.new_positions
               /\ DOMAIN res.new_positions \subseteq res.current_assets

\* C37: every entry counted as closed long was built from a fill labelled
\* 'Close Long', every entry counted as closed short from a 'Close Short'
\* fill, likewise 'Open Long' and 'Open Short' for the two open statistics;
\* a fill with another label is counted nowhere.
C37_FillClassification ==
    /\ "get_whale_positions" \in dedupe_done =>
         \A q \in TrackerSources : \A n \in 1..Len(tracker_positions) :
             LET label == fills[q[n]].dir
             IN /\ n \in open_longs(tracker_positions) <=> label = "Open Long"
                /\ n \in open_shorts(tracker_positions) <=> label = "Open Short"
                /\ n \in closed_longs(tracker_positions) <=> label = "Close Long"
                /\ n \in closed_shorts(tracker_positions) <=> label = "Close Short"
    /\ "get_recent_positions" \in dedupe_done =>
         \A q \in RecentSources : \A n \in 1..Len(recent_positions) :
             LET label == fills[q[n]].dir
             IN /\ n \in recent_long(recent_positions) <=> label = "Open Long"
                /\ n \in recent_short(recent_positions) <=> label = "Open Short"
                /\ n \in recent_closed_long(recent_positions) <=> label = "Close Long"
                /\ n \in recent_closed_short(recent_positions) <=> label = "Close Short"

----------------------------------------------------------------------------
(* WhalePositionTracker.track_positions: the pool of process_whale tasks   *)

\* What the exchange may return for one wallet: nothing, one fill, the same
\* trade twice, a fill below the minimum value, two different trades.
TrackFillLists ==
    { <<>>,
      <<Fill(1, "BTC", "Open Long", 2, 50000, 1500, "limit")>>,
      <<Fill(1, "BTC", "Open Long", 2, 50000, 1500, "limit"),
        Fill(2, "BTC", "Open Long", 2, 50000, 1500, "limit")>>,
      <<Fill(9, "ETH", "Open Long", 1, 99999, 1500, "limit")>>,
      <<Fill(1, "BTC", "Open Long", 2, 50000, 1500, "limit"),
        Fill(6, "BTC", "Open Short", 2, 50000, 1500, "limit")>> }

\* line 200 of process_whale: the de-duplicated fills of the wallet
WalletPositions(w) == get_whale_positions(w, wallet_fills[w])

\* lines 200-201: the task fetches the wallet's positions and tests them
FetchPositions(w) ==
    /\ track_main = "pool"
    /\ track_pc[w] = "queued"
    /\ track_pc' = [track_pc EXCEPT ![w] =
                       IF WalletPositions(w) # <<>> THEN "acquire" ELSE "read"]
    /\ UNCHANGED <<wallet_fills, track_read, self_positions, active_wallets,
                   processed_wallets, track_main, lock, fills,
                   tracker_positions, recent_positions, dedupe_done, tz,
                   sentimentVars, scanVars, loopVars, requestVars>>

\* line 202: with self.lock
AcquireLock(w) ==
    /\ track_pc[w] = "acquire"
    /\ lock = "free"
    /\ lock' = w
    /\ track_pc' = [track_pc EXCEPT ![w] = "extend"]
    /\ UNCHANGED <<wallet_fills, track_read, self_positions, active_wallets,
                   processed_wallets, track_main, fills, tracker_positions,
                   recent_positions, dedupe_done, tz, sentimentVars, scanVars, loopVars,
                   requestVars>>

\* lines 203-204, and the release of the lock at the end of the block
ExtendPositions(w) ==
    /\ track_pc[w] = "extend"
    /\ lock = w
    /\ self_positions' = self_positions \o WalletPositions(w)
    /\ active_wallets' = active_wallets + 1
    /\ lock' = "free"
    /\ track_pc' = [track_pc EXCEPT ![w] = "read"]
    /\ UNCHANGED <<wallet_fills, track_read, processed_wallets, track_main,
                   fills, tracker_positions, recent_positions, dedupe_done, tz,
                   sentimentVars, scanVars, loopVars, requestVars>>

\* line 205, self.processed_wallets += 1 outside the lock: the attribute
\* is read ...
ReadProcessed(w) ==
    /\ track_pc[w] = "read"
    /\ track_read' = [track_read EXCEPT ![w] = processed_wallets]
    /\ track_pc' = [track_pc EXCEPT ![w] = "store"]
    /\ UNCHANGED <<wallet_fills, self_positions, active_wallets, processed_wallets,
                   track_main, lock, fills, tracker_positions,
                   recent_positions, dedupe_done, tz, sentimentVars, scanVars, loopVars,
                   requestVars>>

\* ... and the value read, plus one, is stored
StoreProcessed(w) ==
    /\ track_pc[w] = "store"
    /\ processed_wallets' = track_read[w] + 1
    /\ track_pc' = [track_pc EXCEPT ![w] = "done"]
    /\ UNCHANGED <<wallet_fills, track_read, self_positions, active_wallets,
                   track_main, lock, fills, tracker_positions,
                   recent_positions, dedupe_done, tz, sentimentVars, scanVars, loopVars,
                   requestVars>>

\* lines 319-333: the pool is left when every task has finished, and
\* display_positions reads the counters and self.positions
DisplayPositions ==
    /\ track_main = "pool"
    /\ \A w \in TrackWallets : track_pc[w] = "done"
    /\ track_main' = "display"
    /\ UNCHANGED <<wallet_fills, track_pc, track_read, self_positions,
                   active_wallets, processed_wallets, lock, fills,
                   tracker_positions, recent_positions, dedupe_done, tz,
                   sentimentVars, scanVars, loopVars, requestVars>>

InitTrack ==
    /\ InitScan
    /\ LoopIdle
    /\ RequestIdle
    /\ lock = "free"
    /\ fills = <<>>
    /\ tracker_positions = <<>>
    /\ recent_positions = <<>>
    /\ dedupe_done = {}
    /\ tz = "UTC"
    /\ wallet_fills \in [TrackWallets -> TrackFillLists]
    /\ track_pc = [w \in TrackWallets |-> "queued"]
    /\ track_read = [w \in TrackWallets |-> 0]
    /\ self_positions = <<>>
    /\ active_wallets = 0
    /\ processed_wallets = 0
    /\ track_main = "pool"
    /\ SentimentIdle

NextTrack ==
    \/ \E w \in TrackWallets : FetchPositions(w)
    \/ \E w \in TrackWallets : AcquireLock(w)
    \/ \E w \in TrackWallets : ExtendPositions(w)
    \/ \E w \in TrackWallets : ReadProcessed(w)
    \/ \E w \in TrackWallets : StoreProcessed(w)
    \/ DisplayPositions

SpecTrack == InitTrack /\ [][NextTrack]_vars

ActiveTracked == {w \in TrackWallets : WalletPositions(w) # <<>>}

AllTracked ==
    UNION {{WalletPositions(w)[n] : n \in 1..Len(WalletPositions(w))} :
              w \in TrackWallets}

\* C35: when track_positions has left the pool, processed_wallets is the
\* number of wallets, active_wallets is the number of wallets with at least
\* one de-duplicated fill, and self.positions holds every such wallet's
\* de-duplicated fills exactly once, whatever the order of the workers' steps.
C35_NoLostUpdates ==
    track_main = "display" =>
        /\ processed_wallets = Cardinality(TrackWallets)
        /\ active_wallets = Cardinality(ActiveTracked)
        /\ \A e \in AllTracked : Occurrences(self_positions, e) = 1
        /\ \A n \in 1..Len(self_positions) : self_positions[n] \in AllTracked

----------------------------------------------------------------------------
(* WhaleSentimentTracker (whale_sentiment_tracker.py): one snapshot per    *)
(* run of the script, compared with the snapshot the run before saved     *)

MaxRuns == 3
MaxTrades == 1

\* self.config['min_position_value'] of line 115
min_position_value == 100000

\* What user_state reports for one wallet and asset: no position, a long
\* and a short above the minimum value, a long below it.
ExchangePositions ==
    { NoPosition,
      [szi |-> 2, positionValue |-> 100000],
      [szi |-> -2, positionValue |-> 150000],
      [szi |-> 1, positionValue |-> 99999] }

\* The positions of one wallet when the first run starts.
WalletStates ==
    { [a \in Assets |-> NoPosition],
      [a \in Assets |-> IF a = "BTC" THEN [szi |-> 2, positionValue |-> 100000]
                        ELSE NoPosition],
      [a \in Assets |-> IF a = "BTC" THEN [szi |-> 2, positionValue |-> 100000]
                        ELSE [szi |-> -2, positionValue |-> 150000]],
      [a \in Assets |-> IF a = "BTC" THEN [szi |-> 1, positionValue |-> 99999]
                        ELSE [szi |-> 2, positionValue |-> 100000]] }

\* line 115
SentimentTracked(pos) ==
    pos.szi # 0 /\ pos.positionValue >= min_position_value

\* lines 119-126: prev_size is None when there is no previous snapshot, the
\* wallet is not in its positions or the asset is not among the wallet's;
\* the position is new when prev_size is None or 0.
IsNew(prev, whale_address, coin) ==
    \/ ~prev.exists
    \/ whale_address \notin DOMAIN prev.positions
    \/ coin \notin DOMAIN prev.positions[whale_address]
    \/ prev.positions[whale_address][coin] = 0

\* lines 90-140 (process_whale): new_positions of one wallet, asset -> size.
\* When user_state raises, the wallet yields ({}, {}).
sentiment_new_positions(prev, whale_address, state, raises) ==
    LET new == IF raises THEN {}
               ELSE {a \in Assets : /\ SentimentTracked(state[a])
                                    /\ IsNew(prev, whale_address, a)}
    IN [a \in new |-> state[a].szi]

\* lines 164-185: new_positions_details holds the wallets with at least one
\* new position
new_positions_details(prev, states, failing) ==
    LET with_new == {w \in SentimentWallets :
                       DOMAIN sentiment_new_positions(prev, w, states[w],
                                                      w \in failing) # {}}
    IN [w \in with_new |->
           sentiment_new_positions(prev, w, states[w], w \in failing)]

NewPairs(details) ==
    {<<w, a>> : w \in DOMAIN details, a \in Assets} \cap
    {p \in SentimentWallets \X Assets :
        p[1] \in DOMAIN details /\ p[2] \in DOMAIN details[p[1]]}

\* lines 142-203 (take_snapshot): the snapshot built from the new positions
\* (line 200: positions = new_positions_details)
take_snapshot(prev, states, failing) ==
    LET details == new_positions_details(prev, states, failing)
    IN [exists |-> TRUE,
        new_longs |-> Cardinality({p \in NewPairs(details) :
                                      details[p[1]][p[2]] > 0}),
        new_shorts |-> Cardinality({p \in NewPairs(details) :
                                       ~(details[p[1]][p[2]] > 0)}),
        positions |-> details]

\* sentiment_log: a run with the positions it counted as new, the wallets
\* whose user_state raised and whether it wrote the file; or a trade.
RunEntry(new, failing, written) ==
    [kind |-> "run", new |-> new, failing |-> failing, written |-> written,
     pair |-> <<"", "">>]
TradeEntry(pair) ==
    [kind |-> "trade", new |-> {}, failing |-> {}, written |-> FALSE,
     pair |-> pair]

\* lines 211, 55-80: the script is started; __init__ loads the snapshot
\* file of the run before, if there is one
LoadPreviousSnapshot ==
    /\ sentiment_pc = "start"
    /\ sentiment_runs < MaxRuns
    /\ sentiment_runs' = sentiment_runs + 1
    /\ previous_snapshot' = sentiment_file
    /\ sentiment_pc' = "loaded"
    /\ UNCHANGED <<sentiment_trades, exchange, sentiment_file, sentiment_log,
                   fills, tracker_positions, recent_positions, dedupe_done, tz,
                   trackVars, scanVars, loopVars, requestVars, lock>>

\* lines 214-218: take_snapshot over all wallets, then save_snapshot, which
\* writes the file or fails (lines 84-88); user_state may raise for some
\* of the wallets (lines 138-140)
TakeAndSaveSnapshot ==
    /\ sentiment_pc = "loaded"
    /\ \E failing \in {{}, {"w1"}}, written \in BOOLEAN :
          LET snap == take_snapshot(previous_snapshot, exchange, failing)
          IN /\ sentiment_file' = IF written THEN snap ELSE sentiment_file
             /\ sentiment_log' =
                   Append(sentiment_log,
                          RunEntry(NewPairs(snap.positions), failing, written))
    /\ sentiment_pc' = "start"
    /\ UNCHANGED <<sentiment_runs, sentiment_trades, exchange,
                   previous_snapshot, fills, tracker_positions,
                   recent_positions, dedupe_done, tz, trackVars, scanVars,
                   loopVars, requestVars, lock>>

\* lines 149-160, 205-207, 216: take_snapshot returns None (activeWhales.json
\* is missing or names no wallet) and nothing is saved
TakeSnapshotFails ==
    /\ sentiment_pc = "loaded"
    /\ sentiment_log' = Append(sentiment_log, RunEntry({}, {}, FALSE))
    /\ sentiment_pc' = "start"
    /\ UNCHANGED <<sentiment_runs, sentiment_trades, exchange, sentiment_file,
                   previous_snapshot, fills, tracker_positions,
                   recent_positions, dedupe_done, tz, trackVars, scanVars,
                   loopVars, requestVars, lock>>

\* Between two runs a wallet opens, closes or changes a position.
Trade ==
    /\ sentiment_pc = "start"
    /\ sentiment_trades < MaxTrades
    /\ sentiment_trades' = sentiment_trades + 1
    /\ \E w \in SentimentWallets, a \in Assets, pos \in ExchangePositions :
          /\ pos # exchange[w][a]
          /\ exchange' = [exchange EXCEPT ![w][a] = pos]
          /\ sentiment_log' = Append(sentiment_log, TradeEntry(<<w, a>>))
    /\ UNCHANGED <<sentiment_pc, sentiment_runs, sentiment_file,
                   previous_snapshot, fills, tracker_positions,
                   recent_positions, dedupe_done, tz, trackVars, scanVars,
                   loopVars, requestVars, lock>>

InitSentiment ==
    /\ InitScan
    /\ LoopIdle
    /\ RequestIdle
    /\ lock = "free"
    /\ fills = <<>>
    /\ tracker_positions = <<>>
    /\ recent_positions = <<>>
    /\ dedupe_done = {}
    /\ tz = "UTC"
    /\ TrackIdle
    /\ sentiment_pc = "start"
    /\ sentiment_runs = 0
    /\ sentiment_trades = 0
    /\ exchange \in [SentimentWallets -> WalletStates]
    /\ sentiment_file = NoSentimentFile
    /\ previous_snapshot = NoSentimentFile
    /\ sentiment_log = <<>>

NextSentiment ==
    \/ LoadPreviousSnapshot
    \/ TakeAndSaveSnapshot
    \/ TakeSnapshotFails
    \/ Trade

SpecSentiment == InitSentiment /\ [][NextSentiment]_vars

\* C31: over consecutive runs of the sentiment tracker, each loading the
\* snapshot file the run before saved, a position that a wallet holds all
\* the time with non-zero size above the minimum value is counted as new in
\* at most one run: when every run saved its snapshot, two runs that count
\* the same position as new have a change of that position between them.
C31_NewInAtMostOneRun ==
    \A i, j \in 1..Len(sentiment_log) :
        \A p \in SentimentWallets \X Assets :
            ( /\ i < j
              /\ sentiment_log[i].kind = "run" /\ p \in sentiment_log[i].new
              /\ sentiment_log[j].kind = "run" /\ p \in sentiment_log[j].new
              /\ \A k \in i..(j - 1) :
                    sentiment_log[k].kind = "run" => sentiment_log[k].written )
            => \E k \in (i + 1)..(j - 1) :
                  sentiment_log[k].kind = "trade" /\ sentiment_log[k].pair = p

----------------------------------------------------------------------------
(* The tracking loop of WhaleScoreTracker and its history ledger           *)

\* Clock units per second: datetime.now() is finer than the one-second
\* resolution of the history file's '%Y-%m-%d %H:%M:%S'.
SubSec == 2
MaxTicks == 2
MaxLoops == 2
MaxCrashes == 1

RETENTION_HOURS == 72

\* BASE_DELAY and MAX_DELAY of whale_score_tracker.py (lines 26-27), seconds.
TRACKER_BASE_DELAY == 5
TRACKER_MAX_DELAY == 300

Hour == 3600 * SubSec
Retention == RETENTION_HOURS * Hour

\* The clock when the tracker is constructed, and how far one step moves it.
StartTime == 72 * Hour
TickSteps == {1, SubSec, 3 * Hour, -Hour}

\* snapshot.timestamp.strftime('%Y-%m-%d %H:%M:%S'): whole seconds.
strftime(t) == t \div SubSec

\* datetime.strptime(snapshot['datetime'], '%Y-%m-%d %H:%M:%S')
strptime(d) == d * SubSec

Entry(datetime, score, lw, sw) ==
    [datetime |-> datetime, score |-> score, longing_wallets |-> lw,
     shorting_wallets |-> sw]

\* An entry whose 'datetime' strptime cannot parse.
BadEntry == Entry(-1, 0, 0, 0)

\* A file that is there and is no JSON (also: a write that stopped half way).
CorruptFile == [exists |-> TRUE, valid |-> FALSE, last_updated |-> 0,
                history |-> <<>>]

HistoryFile(updated, entries) ==
    [exists |-> TRUE, valid |-> TRUE, last_updated |-> updated,
     history |-> entries]

\* What resources/score_history.json may hold when the tracker starts.
\* Datetimes are seconds: 0 h, 0 h + 1 s, 40 h, 80 h (after StartTime).
InitialFiles ==
    { NoFile,
      CorruptFile,
      HistoryFile(144000, <<>>),
      HistoryFile(144000, <<Entry(1, 1, 2, 1), Entry(144000, -1, 0, 1)>>),
      HistoryFile(144000, <<Entry(144000, -1, 0, 1), Entry(1, 1, 2, 1)>>),
      HistoryFile(144000, <<Entry(0, 1, 2, 1), Entry(144000, -1, 0, 1)>>),
      HistoryFile(144000, <<Entry(288000, 0, 0, 0), BadEntry, Entry(144000, -1, 0, 1)>>) }

\* (score, longing_wallets, shorting_wallets) of the snapshots a scan returns.
ScanOutcomes == { <<1, 2, 1>>, <<0, 0, 0>> }

\* lines 152 and 339 with the cutoff itself kept.
InWindowInclusive(timestamp, cutoff) == timestamp >= cutoff

\* lines 152 and 339 with nothing dropped.
InWindowAll(timestamp, cutoff) == TRUE

\* lines 152 and 339: s.timestamp > cutoff_time
InWindow(timestamp, cutoff) == timestamp > cutoff

\* [s for s in self.score_history if s.timestamp > cutoff_time]
RECURSIVE Prune(_, _)
Prune(history, cutoff) ==
    IF history = <<>> THEN <<>>
    ELSE LET rest == Prune(Tail(history), cutoff)
         IN IF InWindow(Head(history).timestamp, cutoff)
            THEN <<Head(history)>> \o rest
            ELSE rest

\* lines 134-148 without the test of line 138: every entry that parses is
\* loaded, the ones dated after now included.
RECURSIVE LoadEntriesKeepFuture(_, _)
LoadEntriesKeepFuture(entries, t) ==
    IF entries = <<>> THEN <<>>
    ELSE LET e == Head(entries)
             rest == LoadEntriesKeepFuture(Tail(entries), t)
         IN IF e.datetime < 0 THEN rest
            ELSE <<[timestamp |-> strptime(e.datetime), score |-> e.score,
                    longing_wallets |-> e.longing_wallets,
                    shorting_wallets |-> e.shorting_wallets]>> \o rest

\* lines 134-148: entries that parse and are not in the future.
RECURSIVE LoadEntries(_, _)
LoadEntries(entries, t) ==
    IF entries = <<>> THEN <<>>
    ELSE LET e == Head(entries)
             rest == LoadEntries(Tail(entries), t)
         IN IF e.datetime < 0 THEN rest
            ELSE IF strptime(e.datetime) <= t
                 THEN <<[timestamp |-> strptime(e.datetime), score |-> e.score,
                         longing_wallets |-> e.longing_wallets,
                         shorting_wallets |-> e.shorting_wallets]>> \o rest
                 ELSE rest

\* lines 125-166 without the try around one entry: an entry that does not
\* parse ends in the outer handler, which empties the history.
load_history_no_inner_try(file, t) ==
    IF ~file.exists THEN <<>>
    ELSE IF ~file.valid THEN <<>>
    ELSE IF \E n \in 1..Len(file.history) : file.history[n].datetime < 0
         THEN <<>>
         ELSE SortByTimestamp(Prune(LoadEntries(file.history, t), t - Retention))

\* lines 125-166
load_history(file, t) ==
    IF ~file.exists THEN <<>>
    ELSE IF ~file.valid THEN <<>>
    ELSE SortByTimestamp(Prune(LoadEntries(file.history, t), t - Retention))

\* lines 101-108 with only the newest snapshot converted.
HistoryDataNewestOnly(history) ==
    IF history = <<>> THEN <<>>
    ELSE LET last == history[Len(history)]
         IN <<Entry(strftime(last.timestamp), last.score, last.longing_wallets,
                    last.shorting_wallets)>>

\* lines 101-108
HistoryData(history) ==
    [n \in 1..Len(history) |->
        Entry(strftime(history[n].timestamp), history[n].score,
              history[n].longing_wallets, history[n].shorting_wallets)]

PcOf(thread) == IF thread = "tracker" THEN tracker_pc ELSE main_pc

\* lines 315-327: the head of the while loop.
LoopTop ==
    /\ tracker_pc = "loop"
    /\ IF ~running
       THEN /\ tracker_pc' = "exited"
            /\ loops' = loops
       ELSE /\ loops < MaxLoops
            /\ loops' = loops + 1
            /\ tracker_pc' = "analyze"
    /\ UNCHANGED <<running, main_pc, cleanup_calls, score_history, history_file,
                   now, ticks, retry_count, snapshot, pre_prune, prune_now,
                   last_cutoff, file_written, disk_failed, lock, scanVars,
                   dedupeVars, requestVars,
                   save_log, delay, crashes, crash, loaded>>

\* line 328 with lines 295-310: analyze_positions returns a snapshot stamped
\* with the clock.
AnalyzeReturns ==
    /\ tracker_pc = "analyze"
    /\ \E r \in ScanOutcomes :
        snapshot' = [timestamp |-> now, score |-> r[1],
                     longing_wallets |-> r[2], shorting_wallets |-> r[3]]
    /\ tracker_pc' = "append"
    /\ UNCHANGED <<running, main_pc, cleanup_calls, score_history, history_file,
                   now, ticks, retry_count, loops, pre_prune, prune_now,
                   last_cutoff, file_written, disk_failed, lock, scanVars,
                   dedupeVars, requestVars,
                   save_log, delay, crashes, crash, loaded>>

Min(a, b) == IF a < b THEN a ELSE b

\* line 386
backoff_delay(rc) ==
    Min(TRACKER_BASE_DELAY * (2 ^ (rc - 1)), TRACKER_MAX_DELAY)

\* The failed cycle recorded as a scan of no wallets: a snapshot of score 0
\* is appended before the backoff.
AnalyzeRaisesRecordsZero ==
    /\ tracker_pc = "analyze"
    /\ retry_count' = retry_count + 1
    /\ delay' = backoff_delay(retry_count')
    /\ score_history' =
          Append(score_history, [timestamp |-> now, score |-> 0,
                                 longing_wallets |-> 0, shorting_wallets |-> 0])
    /\ tracker_pc' = "sleep"
    /\ UNCHANGED <<running, main_pc, cleanup_calls, history_file,
                   now, ticks, snapshot, loops, pre_prune, prune_now,
                   last_cutoff, file_written, disk_failed, lock, scanVars,
                   dedupeVars, requestVars,
                   save_log, crashes, crash, loaded>>

\* line 328 raising (lines 241-244: the wallet list cannot be read), handled
\* at lines 379-388.
AnalyzeRaises ==
    /\ tracker_pc = "analyze"
    /\ retry_count' = retry_count + 1
    /\ delay' = backoff_delay(retry_count')
    /\ tracker_pc' = "sleep"
    /\ UNCHANGED <<running, main_pc, cleanup_calls, score_history, history_file,
                   now, ticks, snapshot, loops, pre_prune, prune_now,
                   last_cutoff, file_written, disk_failed, lock, scanVars,
                   dedupeVars, requestVars,
                   save_log, crashes, crash, loaded>>

\* whale_sentiment_tracker.py lines 102-107: the time of a position is the
\* time of the API answer, cut to the local clock; an answer without a time
\* gets the local clock.
position_time(api_timestamp, t) ==
    IF api_timestamp > 0 THEN Min(api_timestamp, t) ELSE t

\* lines 331-333 without the test: the snapshot keeps its timestamp.
ClampTimestampNever(s, t) == s

\* lines 331-333
ClampTimestamp(s, t) == IF s.timestamp > t THEN [s EXCEPT !.timestamp = t] ELSE s

\* lines 331-341: take the lock, append, prune, sort. The lock stays held
\* for the call of save_history at line 343.
AppendPruneSort ==
    /\ tracker_pc = "append"
    /\ CanAcquire(lock, "tracker")
    /\ lock' = "tracker"
    /\ LET appended == Append(score_history, ClampTimestamp(snapshot, now))
       IN /\ pre_prune' = appended
          /\ score_history' = SortByTimestamp(Prune(appended, now - Retention))
    /\ prune_now' = now
    /\ last_cutoff' = [set |-> TRUE, at |-> now - Retention]
    /\ tracker_pc' = "save"
    /\ UNCHANGED <<running, main_pc, cleanup_calls, history_file, now, ticks,
                   retry_count, snapshot, loops, file_written, disk_failed,
                   scanVars, dedupeVars, requestVars,
                   save_log, delay, crashes, crash, loaded>>

\* lines 90-123, called at line 343 by the tracking thread and at line 397
\* by cleanup. The write may fail before or after open() truncated the file.
\* Back in the loop (lines 345-377) the tracking thread resets retry_count
\* and sleeps.
save_history(thread) ==
    /\ PcOf(thread) = "save"
    /\ CanAcquire(lock, thread)
    /\ lock' = "free"
    /\ score_history' = SortByTimestamp(score_history)
    /\ \E outcome \in {"written", "open_failed", "partial"} :
        /\ history_file' =
              IF outcome = "written"
              THEN HistoryFile(strftime(now), HistoryData(score_history'))
              ELSE IF outcome = "partial" THEN CorruptFile
              ELSE history_file
        /\ file_written' = (file_written \/ outcome = "written")
        /\ disk_failed' = (disk_failed \/ outcome # "written")
        /\ save_log' = Append(save_log,
                              [outcome |-> outcome, before |-> score_history,
                               after |-> score_history', file |-> history_file'])
    /\ IF thread = "tracker"
       THEN /\ tracker_pc' = "sleep"
            /\ retry_count' = 0
            /\ delay' = 15 * 60
            /\ main_pc' = main_pc
       ELSE /\ main_pc' = "returned"
            /\ UNCHANGED <<tracker_pc, retry_count, delay>>
    /\ UNCHANGED <<running, cleanup_calls, now, ticks, snapshot, loops,
                   pre_prune, prune_now, last_cutoff, scanVars, dedupeVars,
                   requestVars, crashes, crash, loaded>>

\* The process is killed while a thread is inside save_history (lines
\* 93-115): before open(), after open(..., 'w') has truncated the file and
\* before json.dump has written all of it, or after the file is complete.
Crash(thread) ==
    /\ crashes < MaxCrashes
    /\ PcOf(thread) = "save"
    /\ CanAcquire(lock, thread)
    /\ crashes' = crashes + 1
    /\ LET data == HistoryData(SortByTimestamp(score_history))
       IN /\ crash' = [happened |-> TRUE, old_file |-> history_file,
                       new_history |-> data]
          /\ \E point \in {"before_open", "after_open", "after_dump"} :
               history_file' =
                   IF point = "before_open" THEN history_file
                   ELSE IF point = "after_open" THEN CorruptFile
                   ELSE HistoryFile(strftime(now), data)
    /\ main_pc' = "crashed"
    /\ tracker_pc' = "crashed"
    /\ running' = FALSE
    /\ lock' = "free"
    /\ score_history' = <<>>
    /\ pre_prune' = <<>>
    /\ save_log' = <<>>
    /\ file_written' = FALSE
    /\ disk_failed' = FALSE
    /\ UNCHANGED <<cleanup_calls, now, ticks, retry_count, snapshot, loops,
                   prune_now, last_cutoff, delay, loaded, scanVars, dedupeVars,
                   requestVars>>

\* lines 69-88 again: the program is started after it was killed, and
\* load_history reads what the killed process left on disk.
Restart ==
    /\ main_pc = "crashed"
    /\ running' = TRUE
    /\ tracker_pc' = "loop"
    /\ main_pc' = "waiting"
    /\ cleanup_calls' = 0
    /\ score_history' = load_history(history_file, now)
    /\ loaded' = [file |-> history_file, at |-> now, result |-> score_history',
                  after_crash |-> TRUE]
    /\ last_cutoff' = [set |-> history_file.exists /\ history_file.valid,
                       at |-> IF history_file.exists /\ history_file.valid
                              THEN now - Retention ELSE 0]
    /\ retry_count' = 0
    /\ snapshot' = [timestamp |-> 0, score |-> 0, longing_wallets |-> 0,
                    shorting_wallets |-> 0]
    /\ prune_now' = 0
    /\ delay' = 0
    /\ UNCHANGED <<history_file, now, ticks, loops, pre_prune, file_written,
                   disk_failed, save_log, crashes, crash, lock, scanVars,
                   dedupeVars, requestVars>>

\* lines 377 and 388: time.sleep returns.
Sleep ==
    /\ tracker_pc = "sleep"
    /\ tracker_pc' = "loop"
    /\ UNCHANGED <<running, main_pc, cleanup_calls, score_history, history_file,
                   now, ticks, retry_count, snapshot, loops, pre_prune,
                   prune_now, last_cutoff, file_written, disk_failed, lock,
                   scanVars, dedupeVars, requestVars,
                   save_log, delay, crashes, crash, loaded>>

\* lines 406-410 and 392-393: the interrupt reaches the main thread, which
\* enters cleanup and clears self.running.
KeyboardInterrupt ==
    /\ main_pc = "waiting"
    /\ main_pc' = "cleanup"
    /\ running' = FALSE
    /\ cleanup_calls' = cleanup_calls + 1
    /\ UNCHANGED <<tracker_pc, score_history, history_file, now, ticks,
                   retry_count, snapshot, loops, pre_prune, prune_now,
                   last_cutoff, file_written, disk_failed, lock, scanVars,
                   dedupeVars, requestVars,
                   save_log, delay, crashes, crash, loaded>>

\* lines 394-396: join() returns once the tracking thread has ended.
CleanupJoin ==
    /\ main_pc = "cleanup"
    /\ tracker_pc = "exited"
    /\ main_pc' = "save"
    /\ UNCHANGED <<running, tracker_pc, cleanup_calls, score_history,
                   history_file, now, ticks, retry_count, snapshot, loops,
                   pre_prune, prune_now, last_cutoff, file_written,
                   disk_failed, lock, scanVars, dedupeVars, requestVars,
                   save_log, delay, crashes, crash, loaded>>

\* line 88: the interpreter exits after cleanup returned and runs the
\* registered cleanup once more.
AtExit ==
    /\ main_pc = "returned"
    /\ cleanup_calls = 1
    /\ main_pc' = "cleanup"
    /\ running' = FALSE
    /\ cleanup_calls' = cleanup_calls + 1
    /\ UNCHANGED <<tracker_pc, score_history, history_file, now, ticks,
                   retry_count, snapshot, loops, pre_prune, prune_now,
                   last_cutoff, file_written, disk_failed, lock, scanVars,
                   dedupeVars, requestVars,
                   save_log, delay, crashes, crash, loaded>>

\* The wall clock moves on, or is set back: datetime.now() is the local
\* wall clock, which the end of daylight saving time sets back one hour.
Tick ==
    /\ ticks < MaxTicks
    /\ ticks' = ticks + 1
    /\ \E d \in TickSteps : now' = now + d
    /\ UNCHANGED <<running, tracker_pc, main_pc, cleanup_calls, score_history,
                   history_file, retry_count, snapshot, loops, pre_prune,
                   prune_now, last_cutoff, file_written, disk_failed, lock,
                   scanVars, dedupeVars, requestVars,
                   save_log, delay, crashes, crash, loaded>>

\* lines 69-88: the state after WhaleScoreTracker() has returned.
InitLoop ==
    /\ InitScan
    /\ DedupeIdle
    /\ RequestIdle
    /\ lock = "free"
    /\ running = TRUE
    /\ tracker_pc = "loop"
    /\ main_pc = "waiting"
    /\ cleanup_calls = 0
    /\ now = StartTime
    /\ ticks = 0
    /\ history_file \in InitialFiles
    /\ score_history = load_history(history_file, now)
    /\ last_cutoff = [set |-> history_file.exists /\ history_file.valid,
                      at |-> IF history_file.exists /\ history_file.valid
                             THEN now - Retention ELSE 0]
    /\ retry_count = 0
    /\ snapshot = [timestamp |-> 0, score |-> 0, longing_wallets |-> 0,
                   shorting_wallets |-> 0]
    /\ loops = 0
    /\ pre_prune = <<>>
    /\ prune_now = 0
    /\ file_written = FALSE
    /\ disk_failed = FALSE
    /\ save_log = <<>>
    /\ delay = 0
    /\ crashes = 0
    /\ crash = NoCrash
    /\ loaded = [file |-> history_file, at |-> now, result |-> score_history,
                 after_crash |-> FALSE]

TrackerStep ==
    \/ LoopTop
    \/ AnalyzeReturns
    \/ AnalyzeRaises
    \/ AppendPruneSort
    \/ save_history("tracker")
    \/ Sleep

CleanupStep ==
    \/ CleanupJoin
    \/ save_history("main")
    \/ AtExit

NextLoop ==
    \/ LoopTop
    \/ AnalyzeReturns
    \/ AnalyzeRaises
    \/ AppendPruneSort
    \/ \E thread \in {"tracker", "main"} : save_history(thread)
    \/ Sleep
    \/ KeyboardInterrupt
    \/ CleanupJoin
    \/ AtExit
    \/ Tick
    \/ \E thread \in {"tracker", "main"} : Crash(thread)
    \/ Restart

SpecLoop == InitLoop /\ [][NextLoop]_vars

\* Both threads are scheduled: a step of a thread that stays possible is
\* taken. The interrupt and the clock are not forced.
FairSpecLoop == SpecLoop /\ WF_vars(TrackerStep) /\ WF_vars(CleanupStep)

----------------------------------------------------------------------------
(* save_history followed by load_history, on histories of the window *)

MaxHistory == 2

\* Timestamps of the window (now - 72 h, now]: half a second and a second
\* after its start, an hour and half a second before now, and now.
WindowTimestamps(t) == {t - Retention + 1, t - Retention + SubSec, t - Hour, t - 1, t}

\* score_history as the loop keeps it: in ascending timestamp order.
WindowHistories(t) ==
    {h \in SeqsUpTo({[timestamp |-> ts, score |-> r[1], longing_wallets |-> r[2],
                      shorting_wallets |-> r[3]] :
                         ts \in WindowTimestamps(t), r \in ScanOutcomes},
                    MaxHistory) :
        \A a, b \in 1..Len(h) : a < b => h[a].timestamp <= h[b].timestamp}

\* lines 69-88: the program is started again after cleanup() has returned,
\* and load_history reads the file the last save_history wrote.
Reload ==
    /\ main_pc = "returned"
    /\ tracker_pc = "exited"
    /\ running' = TRUE
    /\ tracker_pc' = "loop"
    /\ main_pc' = "waiting"
    /\ cleanup_calls' = 0
    /\ score_history' = load_history(history_file, now)
    /\ loaded' = [file |-> history_file, at |-> now, result |-> score_history',
                  after_crash |-> FALSE]
    /\ last_cutoff' = [set |-> history_file.exists /\ history_file.valid,
                       at |-> IF history_file.exists /\ history_file.valid
                              THEN now - Retention ELSE 0]
    /\ UNCHANGED <<history_file, now, ticks, retry_count, snapshot, loops,
                   pre_prune, prune_now, file_written, disk_failed, save_log,
                   delay, crashes, crash, lock, scanVars, dedupeVars,
                   requestVars>>

\* cleanup() is about to save (line 397) a history of the window; the
\* tracking thread has ended.
InitRoundTrip ==
    /\ InitScan
    /\ DedupeIdle
    /\ RequestIdle
    /\ lock = "free"
    /\ running = FALSE
    /\ tracker_pc = "exited"
    /\ main_pc = "save"
    /\ cleanup_calls = 1
    /\ now \in {StartTime, StartTime + 1}
    /\ ticks = 0
    /\ history_file \in {NoFile, CorruptFile}
    /\ score_history \in WindowHistories(now)
    /\ last_cutoff = [set |-> FALSE, at |-> 0]
    /\ retry_count = 0
    /\ snapshot = [timestamp |-> 0, score |-> 0, longing_wallets |-> 0,
                   shorting_wallets |-> 0]
    /\ loops = 0
    /\ pre_prune = <<>>
    /\ prune_now = 0
    /\ file_written = FALSE
    /\ disk_failed = FALSE
    /\ save_log = <<>>
    /\ delay = 0
    /\ crashes = 0
    /\ crash = NoCrash
    /\ loaded = NothingLoaded

NextRoundTrip ==
    \/ save_history("main")
    \/ Reload

SpecRoundTrip == InitRoundTrip /\ [][NextRoundTrip]_vars

----------------------------------------------------------------------------
(* Claims about the tracking loop (checked under SpecLoop, FairSpecLoop) *)

Entries(seq) == {seq[n] : n \in 1..Len(seq)}

\* C7: right after the prune step of a cycle the in-memory history holds
\* exactly the entries it held before the prune (the appended snapshot
\* included) whose timestamp is strictly greater than now - 72 h: every
\* entry left is inside the window and no entry inside the window is gone.
C7_LedgerPrune ==
    tracker_pc = "save" =>
        LET cutoff == prune_now - RETENTION_HOURS * Hour
        IN /\ \A n \in 1..Len(score_history) :
                score_history[n].timestamp > cutoff
           /\ \A e \in Entries(pre_prune) :
                Occurrences(score_history, e) =
                    IF e.timestamp > cutoff THEN Occurrences(pre_prune, e) ELSE 0
           /\ Entries(score_history) \subseteq Entries(pre_prune)

\* The ledger held entries of hour 0 (+1 s) and hour 40; at hour 75 a
\* snapshot is appended and the prune leaves the entries of hours 40 and 75.
C7_Witness ==
    /\ tracker_pc = "save"
    /\ prune_now = 75 * Hour
    /\ Len(pre_prune) = 3
    /\ pre_prune[1].timestamp = SubSec
    /\ Len(score_history) = 2
    /\ score_history[1].timestamp = 40 * Hour
    /\ score_history[2].timestamp = 75 * Hour

SnapshotPersisted ==
    /\ history_file.valid
    /\ \E n \in 1..Len(history_file.history) :
         history_file.history[n] =
            Entry(strftime(ClampTimestamp(snapshot, prune_now).timestamp),
                  snapshot.score,
                  snapshot.longing_wallets, snapshot.shorting_wallets)

\* C8: a cycle that has appended its snapshot to score_history is eventually
\* followed by a completed save_history whose file holds that snapshot,
\* unless a disk write failed.
C8_PersistAfterAppend ==
    (tracker_pc = "save") ~> (SnapshotPersisted \/ disk_failed)

\* C9: a history file written by save_history lists its entries in ascending
\* timestamp order, holds no entry older than the retention window as of the
\* last prune, and holds exactly the entries of score_history (the file is
\* rewritten in full, nothing of the old file is left).
C9_PersistedHistory ==
    (file_written /\ history_file.valid) =>
        LET h == history_file.history
        IN /\ \A a, b \in 1..Len(h) : a < b => h[a].datetime <= h[b].datetime
           /\ last_cutoff.set =>
                \A a \in 1..Len(h) : strptime(h[a].datetime) > last_cutoff.at
           /\ ~last_cutoff.set => h = <<>>
           /\ Len(h) = Len(score_history)
           /\ \A a \in 1..Len(h) :
                /\ h[a].datetime = strftime(score_history[a].timestamp)
                /\ h[a].score = score_history[a].score
                /\ h[a].longing_wallets = score_history[a].longing_wallets
                /\ h[a].shorting_wallets = score_history[a].shorting_wallets

\* cleanup has returned after the clock moved on and has written the two
\* loaded entries (0 h + 1 s, 40 h) in ascending order.
C9_Witness ==
    /\ file_written /\ history_file.valid
    /\ main_pc = "returned"
    /\ Len(history_file.history) = 2
    /\ history_file.history[1].datetime = 1
    /\ history_file.history[2].datetime = 144000
    /\ history_file.last_updated > 259200

\* C10: once cleanup() has been entered, the tracking thread eventually
\* stops, the final save_history completes and cleanup() returns (unless the
\* process is killed).
C10_ShutdownCompletes ==
    (main_pc = "cleanup") ~>
        ((main_pc = "returned" /\ tracker_pc = "exited") \/ crash.happened)

\* C11: when the process is killed at any point inside save_history, the
\* history file holds either what it held before the call or the complete
\* new history, and the load_history of the next start returns what it
\* would return for one of these two files.
C11_CrashSafePersistence ==
    /\ main_pc = "crashed" =>
          \/ history_file = crash.old_file
          \/ /\ history_file.exists /\ history_file.valid
             /\ history_file.history = crash.new_history
    /\ loaded.after_crash =>
          \/ loaded.result = load_history(crash.old_file, loaded.at)
          \/ loaded.result =
                load_history(HistoryFile(0, crash.new_history), loaded.at)

----------------------------------------------------------------------------
(* make_request_with_retry of WhalePositionTracker,                        *)
(* RecentWhalePositionAnalyzer and PositionHistoryTracker                  *)

\* The largest max_retries argument tried (the default is MAX_RETRIES).
MaxRetriesArg == 6
MaxPosts == MaxRetriesArg + 2

\* config.py lines 19-21; recent_24h_positions.py sets the same values in
\* lines 101-104.
MAX_RETRIES == 5
BASE_DELAY == 2
MAX_DELAY == 30

Clients == {"WhalePositionTracker", "RecentWhalePositionAnalyzer",
            "PositionHistoryTracker"}

\* What self.session.post can do: answer 200 with a JSON body, answer 200
\* with a body that is no JSON, answer 429, answer another status, or raise.
PostOutcomes == {"ok", "non_json", "rate_limited", "other_status", "exception"}

\* random.uniform(0, 1), and random.uniform(0, 0.5) in PositionHistoryTracker,
\* in clock units.
Jitters(c) ==
    IF c = "PositionHistoryTracker" THEN 0..(SubSec \div 2) ELSE 0..SubSec

\* min(BASE_DELAY * (2 ** attempt) + jitter, MAX_DELAY) without the min.
request_delay_uncapped(a, jitter) == BASE_DELAY * SubSec * (2 ^ a) + jitter

\* min(BASE_DELAY * (2 ** attempt) + random.uniform(...), MAX_DELAY)
request_delay(a, jitter) ==
    Min(BASE_DELAY * SubSec * (2 ^ a) + jitter, MAX_DELAY * SubSec)

Step(kind, d) == [kind |-> kind, delay |-> d]

\* The try block of one iteration. "raise" is an exception raised inside it:
\* by session.post, by response.json(), or by the print of the 429 branch,
\* which names whale_addresses, a name that is not defined in this scope
\* (and, in PositionHistoryTracker, self.processed_wallets, never set).
try_body(c, a, retries, outcome, jitter) ==
    CASE outcome = "exception" -> Step("raise", 0)
      [] outcome = "ok" ->
            Step("return_response",
                 IF c = "PositionHistoryTracker" THEN 0 ELSE SubSec \div 2)
      [] outcome = "non_json" -> Step("raise", 0)
      [] outcome = "rate_limited" ->
            IF c = "RecentWhalePositionAnalyzer"
            THEN Step("continue", request_delay(a, jitter))
            ELSE Step("raise", 0)
      [] outcome = "other_status" ->
            Step("return_None",
                 IF c # "PositionHistoryTracker" /\ a < retries - 1
                 THEN BASE_DELAY * SubSec ELSE 0)

\* except Exception with the exception raised again.
except_handler_reraise(c, a, retries, jitter) == Step("raise", 0)

\* except Exception: sleep and go on while attempts remain, else return None.
except_handler(c, a, retries, jitter) ==
    IF a < retries - 1
    THEN Step("continue", request_delay(a, jitter))
    ELSE Step("return_None", 0)

\* One pass through the body of the for loop.
iteration(c, a, retries, outcome, jitter) ==
    LET r == try_body(c, a, retries, outcome, jitter)
    IN IF r.kind = "raise" THEN except_handler(c, a, retries, jitter) ELSE r

\* The loop variable with a 429 not counted.
next_attempt_skip_429(a, outcome) ==
    IF outcome = "rate_limited" THEN a ELSE a + 1

\* for attempt in range(max_retries): the next value, whatever happened.
next_attempt(a, outcome) == a + 1

\* One iteration of the loop: the post and what follows it.
Post ==
    /\ req_pc = "request"
    /\ attempt < max_retries
    /\ posts < MaxPosts
    /\ posts' = posts + 1
    /\ \E outcome \in PostOutcomes, jitter \in Jitters(client) :
        LET r == iteration(client, attempt, max_retries, outcome, jitter)
        IN /\ req_log' = Append(req_log, outcome)
           /\ req_delay' = r.delay
           /\ attempt' = IF r.kind = "continue"
                         THEN next_attempt(attempt, outcome) ELSE attempt
           /\ req_pc' = IF r.kind = "continue" THEN "request"
                        ELSE IF r.kind = "raise" THEN "raised"
                        ELSE "returned"
           /\ req_result' = CASE r.kind = "return_response" -> "response"
                              [] r.kind = "return_None" -> "None"
                              [] r.kind = "raise" -> "exception"
                              [] OTHER -> req_result
    /\ UNCHANGED <<client, max_retries, lock, scanVars, dedupeVars, loopVars>>

\* The loop has run out of attempts: the return None after it.
Exhausted ==
    /\ req_pc = "request"
    /\ attempt >= max_retries
    /\ req_pc' = "returned"
    /\ req_result' = "None"
    /\ UNCHANGED <<client, max_retries, attempt, posts, req_log, req_delay,
                   lock, scanVars, dedupeVars, loopVars>>

InitRequest ==
    /\ InitScan
    /\ DedupeIdle
    /\ LoopIdle
    /\ lock = "free"
    /\ client \in Clients
    /\ max_retries \in 0..MaxRetriesArg
    /\ req_pc = "request"
    /\ attempt = 0
    /\ posts = 0
    /\ req_log = <<>>
    /\ req_delay = 0
    /\ req_result = "pending"

NextRequest == Post \/ Exhausted

SpecRequest == InitRequest /\ [][NextRequest]_vars

\* The calling thread keeps running: sleeps and posts return.
FairSpecRequest == SpecRequest /\ WF_vars(NextRequest)

----------------------------------------------------------------------------
(* Claims about the request client (SpecRequest, FairSpecRequest) *)

\* C14: make_request_with_retry makes at most max_retries posts in total,
\* every post (rate-limited, failed or answered) uses up one value of the
\* same loop counter, and the call always ends, returning the parsed
\* response or None.
C14_RetryBound ==
    /\ [](/\ posts <= max_retries
          /\ posts = Len(req_log)
          /\ req_pc = "request" => attempt = posts
          /\ req_result = "response" => req_log[Len(req_log)] = "ok")
    /\ <>(req_pc = "returned" /\ req_result \in {"response", "None"})

\* WhalePositionTracker with the default max_retries has returned None after
\* five posts, among them a 429 and a transport exception.
C14_Witness ==
    /\ client = "WhalePositionTracker"
    /\ max_retries = MAX_RETRIES
    /\ req_pc = "returned"
    /\ req_result = "None"
    /\ posts = MAX_RETRIES
    /\ req_log[1] = "rate_limited"
    /\ req_log[2] = "exception"
    /\ req_log[MAX_RETRIES] = "rate_limited"

\* C15: whatever the posts do (200 with or without a JSON body, 429, another
\* status, a transport exception), no exception leaves
\* make_request_with_retry: the call is still running or has returned the
\* response or None.
C15_NeverRaises ==
    /\ req_pc \in {"request", "returned"}
    /\ req_pc = "returned" => req_result \in {"response", "None"}
    /\ req_pc = "request" => req_result = "pending"

\* PositionHistoryTracker has met a body that is no JSON, a transport
\* exception and a 429, and has returned None on another status.
C15_Witness ==
    /\ client = "PositionHistoryTracker"
    /\ req_pc = "returned"
    /\ req_result = "None"
    /\ req_log = <<"non_json", "exception", "rate_limited", "other_status">>

\* The step is a post that was answered by a given outcome.
Answered(outcome) ==
    /\ req_pc = "request"
    /\ posts' = posts + 1
    /\ req_log'[Len(req_log')] = outcome

\* C16: a 429 on an attempt before the last one never ends the call: the
\* client sleeps a backoff delay of at least BASE_DELAY * 2^attempt (or
\* MAX_DELAY) and at most MAX_DELAY, and is then about to post again.
C16_RateLimitedRetries ==
    [][ (Answered("rate_limited") /\ attempt < max_retries - 1) =>
            /\ req_pc' = "request"
            /\ attempt' = attempt + 1
            /\ attempt' < max_retries
            /\ req_delay' >= Min(BASE_DELAY * SubSec * (2 ^ attempt),
                                 MAX_DELAY * SubSec)
            /\ req_delay' <= MAX_DELAY * SubSec
      ]_vars

\* The fifth post of a call with max_retries = 6 got a 429: the delay is cut
\* to MAX_DELAY and a sixth post follows.
C16_Witness ==
    /\ max_retries = 6
    /\ req_pc = "request"
    /\ Len(req_log) = 5
    /\ req_log[5] = "rate_limited"
    /\ attempt = 5
    /\ req_delay = MAX_DELAY * SubSec

\* C17: another status (neither 200 nor 429) on an attempt before the last
\* one is followed by a further post, and None is returned for it only on
\* the last attempt.
C17_MalformedRetries ==
    [][ Answered("other_status") =>
            IF attempt < max_retries - 1
            THEN req_pc' = "request" /\ attempt' = attempt + 1
            ELSE req_pc' = "returned" /\ req_result' = "None"
      ]_vars

----------------------------------------------------------------------------
(* Further claims about the tracking loop (SpecLoop) *)

\* C18: a cycle in which analyze_positions raises (the wallet list is missing
\* or unreadable) appends no snapshot and writes no file, the loop does not
\* end because of it (it ends only at its head, once self.running is
\* cleared), and after a backoff sleep of min(5 * 2^(retry_count - 1), 300)
\* seconds the thread is back at the loop head, from where the next cycle
\* starts.
C18_CycleErrors ==
    [][ /\ (tracker_pc = "analyze" /\ tracker_pc' # "append") =>
              /\ tracker_pc' \in {"analyze", "sleep"}
              /\ score_history' = score_history
              /\ history_file' = history_file
        /\ (tracker_pc = "analyze" /\ tracker_pc' = "sleep") =>
              /\ retry_count' = retry_count + 1
              /\ delay' > 0
              /\ delay' = Min(5 * 2 ^ retry_count, 300)
        /\ (tracker_pc = "sleep" /\ tracker_pc' # "sleep") => tracker_pc' = "loop"
        /\ (tracker_pc = "loop" /\ tracker_pc' # "loop") =>
              tracker_pc' = IF running THEN "analyze" ELSE "exited"
        /\ (tracker_pc # "exited" /\ tracker_pc' = "exited") =>
              tracker_pc = "loop" /\ ~running
      ]_vars

\* The first cycle failed, the thread slept 5 seconds and has started its
\* second cycle; the two loaded entries are all the history holds.
C18_Witness ==
    /\ tracker_pc = "analyze"
    /\ loops = 2
    /\ retry_count = 1
    /\ delay = 5
    /\ Len(score_history) = 2
    /\ ~file_written

\* The file entry save_history writes for a snapshot.
EntryOf(e) ==
    Entry(strftime(e.timestamp), e.score, e.longing_wallets, e.shorting_wallets)

SnapshotOf(e) ==
    [timestamp |-> strptime(e.datetime), score |-> e.score,
     longing_wallets |-> e.longing_wallets,
     shorting_wallets |-> e.shorting_wallets]

\* C20: load_history leaves score_history empty when the history file is
\* missing or is no valid JSON; when the file is valid, an entry that does
\* not parse is skipped and every other entry that is not in the future and
\* not older than 72 hours is loaded, and nothing else is.
C20_LoadFailure ==
    /\ (~loaded.file.exists \/ ~loaded.file.valid) => loaded.result = <<>>
    /\ (loaded.file.exists /\ loaded.file.valid) =>
          LET h == loaded.file.history
              kept == {n \in 1..Len(h) :
                          /\ h[n].datetime >= 0
                          /\ strptime(h[n].datetime) <= loaded.at
                          /\ strptime(h[n].datetime) > loaded.at - Retention}
          IN /\ Len(loaded.result) = Cardinality(kept)
             /\ \A n \in kept :
                   Occurrences(loaded.result, SnapshotOf(h[n])) =
                       Cardinality({m \in kept : h[m] = h[n]})

\* The file held an entry of hour 80 (in the future), an entry that does
\* not parse and an entry of hour 40: the entry of hour 40 was loaded.
C20_Witness ==
    /\ Len(loaded.file.history) = 3
    /\ loaded.file.history[2] = BadEntry
    /\ Len(loaded.result) = 1
    /\ loaded.result[1].timestamp = 40 * Hour

\* C21: whatever the history file held, the history load_history leaves is
\* in ascending timestamp order and every entry of it is younger than 72
\* hours and not dated after the clock of the load: now - 72 h < timestamp
\* <= now. Every entry kept is an entry of the file.
C21_ReloadPrunes ==
    LET h == loaded.result
    IN /\ \A a, b \in 1..Len(h) : a < b => h[a].timestamp <= h[b].timestamp
       /\ \A a \in 1..Len(h) :
             /\ loaded.at - RETENTION_HOURS * Hour < h[a].timestamp
             /\ h[a].timestamp <= loaded.at
             /\ loaded.file.exists /\ loaded.file.valid
             /\ \E n \in 1..Len(loaded.file.history) :
                   /\ loaded.file.history[n].datetime >= 0
                   /\ h[a] = SnapshotOf(loaded.file.history[n])

\* The program was killed and started again at hour 75; the file it left
\* held the entries of hour 0 (+1 s) and hour 40: the first one is older than
\* 72 hours and is dropped at the reload.
C21_Witness ==
    /\ loaded.after_crash
    /\ loaded.at = 75 * Hour
    /\ Len(loaded.file.history) = 2
    /\ loaded.file.history[1].datetime = 1
    /\ Len(loaded.result) = 1
    /\ loaded.result[1].timestamp = 40 * Hour
    /\ score_history = loaded.result

\* C29: no thread waits for self.lock forever: the tracking thread, which
\* calls save_history at line 343 inside its own 'with self.lock' block,
\* gets past that call, gives the lock back and sleeps until the next cycle
\* (unless the process is killed first).
C29_DeadlockFreedom ==
    (tracker_pc = "save") ~>
        ((tracker_pc = "sleep" /\ lock = "free") \/ crash.happened)

\* Times an API answer may carry: none, an hour back, the local clock, one
\* clock unit and an hour ahead of it.
ApiTimestamps == {0, now - Hour, now, now + 1, now + Hour}

C38_FailureBackoff ==
    /\ [][ (tracker_pc = "analyze" /\ tracker_pc' = "sleep") =>
              /\ retry_count' = retry_count + 1
              /\ delay' = Min(TRACKER_BASE_DELAY * 2 ^ (retry_count' - 1),
                              TRACKER_MAX_DELAY)
              /\ delay' <= TRACKER_MAX_DELAY
          ]_vars
    /\ [](\A k \in 1..12 :
             /\ backoff_delay(k) <= TRACKER_MAX_DELAY
             /\ backoff_delay(k) = Min(TRACKER_BASE_DELAY * 2 ^ (k - 1),
                                       TRACKER_MAX_DELAY))
    /\ (tracker_pc = "append") ~> (retry_count = 0 \/ crash.happened)

\* C33: a cycle whose scan succeeded appends exactly one snapshot, then
\* prunes, then persists: the file is not written between the append and
\* the prune, the persist step follows the prune and completes (unless the
\* process is killed first), and a failed cycle appends nothing, prunes
\* nothing and writes nothing.
C33_CycleProtocol ==
    /\ [][ /\ (tracker_pc = "append" /\ tracker_pc' # "append") =>
                  /\ tracker_pc' = "save"
                  /\ Len(pre_prune') = Len(score_history) + 1
                  /\ SubSeq(pre_prune', 1, Len(score_history)) = score_history
                  /\ score_history' =
                        SortByTimestamp(Prune(pre_prune', now - RETENTION_HOURS * Hour))
                  /\ history_file' = history_file
                  /\ save_log' = save_log
           /\ (tracker_pc = "analyze" /\ tracker_pc' = "sleep") =>
                  /\ score_history' = score_history
                  /\ pre_prune' = pre_prune
                  /\ history_file' = history_file
                  /\ save_log' = save_log
          ]_vars
    /\ (tracker_pc = "save") ~> (tracker_pc = "sleep" \/ crash.happened)

=============================================================================
